---- MODULE Spec2Model ----
(***************************************************************************)
(* A model of the job/iterator orchestration of gopowermax: the iterator   *)
(* walker of sloprovisioning.go (GetVolumeIDsIteratorPage,                 *)
(* DeleteVolumeIDsIterator, volumeIteratorToVolIDList), the job poller     *)
(* (WaitOnJobCompletion and its callers) and the mock Unisphere that       *)
(* serves them (handleIterator, NewMockJob, returnJobByID, ...), two       *)
(* listings that share the mock (GetVolumeIDList, handleVolume), and the   *)
(* IsAllowedArray check of the client operations that take a symID.        *)
(*                                                                         *)
(* A volume id is modelled by the 1-based offset it has in the server's    *)
(* result list, so the element at offset i is the number i; the empty      *)
(* string "" (the zero value make([]string, n) fills a slice with) is 0.   *)
(***************************************************************************)
EXTENDS Integers, Sequences, FiniteSets, TLC

\* ------------------------------------------------------------------ bounds
MaxCount == 25
MaxPage == 4
MaxExtra == 1
MaxArg == 6
MaxJobs == 1
MaxReads == 3
MaxPolls == 4
MaxList == 12
MaxArrays == 3
MaxPortKeys == 2
MaxPortList == 2
MaxVols == 2
MaxSGs == 2
MaxHosts == 2
MaxInitiators == 2
MaxChecks == 3
MaxVolArgs == 1
MaxIdentVols == 2
MaxStoreIDs == 2
MaxStoreVols == 2
MaxDebt == 1

\* sloprovisioning.go: MaxVolIdentifierLength.
MaxVolIdentifierLength == 64

\* The page size the mock's listing response carries.
MockMaxPageSize == 10

VARIABLES
    \* ---- iterator walker
    iter,           \* the *types.VolumeIterator handle the drain was given
    srvMode,        \* which server answers the page GETs: "exact", "mock", "shift"
    srvLen,         \* length of the server's result list (Data.VolumeIDIteratorList)
    pc,             \* position of the client call
    from,           \* loop variable of volumeIteratorToVolIDList
    volumeIDList,   \* the list being accumulated
    deferred,       \* whether the DELETE was deferred at entry
    inflight,       \* the page request on the wire, or NoReq
    received,       \* number of elements the server actually delivered
    log,            \* every REST request of the call, in order
    ret,            \* what the call returned
    to,             \* the to argument of a direct GetVolumeIDsIteratorPage call
    pages,          \* per page fetch of the drain: what was served, what was returned
    delRes,         \* how the iterator DELETE ended: "none", "ok" or "failed"
    \* ---- job poller and the mock's jobs
    jobs,           \* Data.JobIDToMockJob
    reads,          \* per job, the statuses its reads have reported, in order
    induced,        \* the InducedErrors flags the mock consults for jobs
    volumes,        \* whether Data.VolumeIDToVolume holds a volume created on request
    cpc,            \* position of the client operation
    op,             \* the client operation under way
    jobID,          \* the job WaitOnJobCompletion polls
    polls,          \* job GETs WaitOnJobCompletion has issued in this call
    lastStatus,     \* last status WaitOnJobCompletion decoded
    seen,           \* what each job GET of this WaitOnJobCompletion call reported
    expired,        \* whether the caller's deadline has passed
    wret,           \* what WaitOnJobCompletion returned
    opRet,          \* what the client operation returned
    steps,          \* the steps the client operation has made, in order
    \* ---- two listings against the one mock
    nvol,           \* per filter, how many volumes of Data.VolumeIDToVolume match it
    srvList,        \* Data.VolumeIDIteratorList
    lst,            \* per listing call, its position and local variables
    \* ---- the allowed arrays
    allowed,        \* the list SetAllowedArrays stored, as a set
    gop,            \* the last client operation called with a symID
    gsym,           \* the symID it was called with
    rest,           \* the REST requests that call issued, in order
    gerr,           \* the error it returned, or "none"
    \* ---- UpdatePortGroup and the mock's port group
    pgList,         \* the SymmetrixPortKey list of the mock's port group
    inPorts,        \* UpdatePortGroup: the keys of the ports asked for
    pgPorts,        \* UpdatePortGroup: the keys of the ports found in the port group
    pgAdded,        \* UpdatePortGroup: the ports to add
    pgRemoved,      \* UpdatePortGroup: the ports to remove
    pgInduced,      \* InducedErrors.GetPortGroupError and UpdatePortGroupError
    ppc,            \* position of the UpdatePortGroup call
    puts,           \* the PUT requests of the call, in order
    pgRet,          \* what UpdatePortGroup returned
    \* ---- DeleteVolume and the mock's volumes
    mvol,           \* Data.VolumeIDToVolume of the mock: per volume ID its NumberOfStorageGroups, VolNil or VolAbsent
    dvInduced,      \* InducedErrors.DeleteVolumeError and DeviceInSGError
    dvpc,           \* position of the DeleteVolume call
    dvVol,          \* the volumeID of the DeleteVolume call
    dvRet,          \* what DeleteVolume returned
    \* ---- CreateHost and the mock's hosts
    hostIDs,        \* the keys of Data.HostIDToHost of the mock
    hostInitiators, \* Host.Initiators of each host of the mock
    initOwner,      \* Data.InitiatorIDToInitiator: per initiator its HostID, NoHost or NoInitiator
    Debug,          \* the package variable Debug of the client
    callerDebug,    \* the value the caller last gave Debug
    chInduced,      \* InducedErrors.CreateHostError
    chRet,          \* what CreateHost returned
    \* ---- UpdateHostInitiators and hasError of the mock
    uhCur,          \* UpdateHostInitiators: host.Initiators of the host passed in
    uhReq,          \* UpdateHostInitiators: the initiatorIDs asked for
    initAdd,        \* UpdateHostInitiators: the initiators to add
    initRemove,     \* UpdateHostInitiators: the initiators to remove
    uhpc,           \* position of the UpdateHostInitiators call
    uhPuts,         \* the PUT requests of the call, in order, each with whether it failed
    uhRet,          \* what UpdateHostInitiators returned
    uhExists,       \* whether the mock has the host
    hostInduced,    \* InducedErrors.UpdateHostError and ResetAfterFirstError
    checks,         \* what hasError answered, check after check
    \* ---- argument validation
    vop,            \* the operation of the last call with arguments to validate
    varg,           \* its arguments: symID, number of volume IDs, length of the name, storageGroupID, host nil or not
    vreqs,          \* the REST requests the call issued, in order
    verr,           \* the error the call returned
    \* ---- GetVolumeByIdentifier
    gvVols,         \* the mock's volumes: per volume ID its StorageGroupIDList and CapacityCYL
    gvArgs,         \* GetVolumeByIdentifier: storageGroupID and sizeInCylinders
    volIDList,      \* GetVolumeByIdentifier: the list GetVolumeIDList returned
    gvIdx,          \* GetVolumeByIdentifier: position of the loop in volIDList
    gvGets,         \* the GetVolumeByID calls of the loop, in order, each with whether it succeeded
    gvpc,           \* position of the GetVolumeByIdentifier call
    gvRet,          \* the volume GetVolumeByIdentifier returned, or NoVolume with its error
    \* ---- mock data store (storage groups, volumes, masking views)
    stSGs,          \* keys of Data.StorageGroupIDToStorageGroup
    stNumOfVolumes, \* StorageGroup.NumOfVolumes per storage group ID
    stNumOfMVs,     \* StorageGroup.NumOfMaskingViews per storage group ID
    stSGVolumes,    \* Data.StorageGroupIDToVolumes
    stVols,         \* keys of Data.VolumeIDToVolume
    stSGList,       \* Volume.StorageGroupIDList per volume ID
    stNumberOfSGs,  \* Volume.NumberOfStorageGroups per volume ID
    stMVs,          \* keys of Data.MaskingViewIDToMaskingView
    stMVSG,         \* MaskingView.StorageGroupID per masking view ID
    stOp            \* last masking view request, its ID and its answer

drainVars == <<iter, srvMode, srvLen, pc, from, volumeIDList, deferred,
               inflight, received, log, ret, to, pages, delRes>>

jobVars == <<jobs, reads, induced, volumes, cpc, op, jobID, polls,
             lastStatus, seen, expired, wret, opRet, steps>>

listVars == <<nvol, srvList, lst>>

gateVars == <<allowed, gop, gsym, rest, gerr>>

portVars == <<pgList, inPorts, pgPorts, pgAdded, pgRemoved, pgInduced, ppc,
              puts, pgRet>>

volVars == <<mvol, dvInduced, dvpc, dvVol, dvRet>>

hostVars == <<hostIDs, hostInitiators, initOwner, Debug, callerDebug,
              chInduced, chRet>>

uhiVars == <<uhCur, uhReq, initAdd, initRemove, uhpc, uhPuts, uhRet,
             uhExists, hostInduced, checks>>

argVars == <<vop, varg, vreqs, verr>>

identVars == <<gvVols, gvArgs, volIDList, gvIdx, gvGets, gvpc, gvRet>>

storeVars == <<stSGs, stNumOfVolumes, stNumOfMVs, stSGVolumes, stVols,
               stSGList, stNumberOfSGs, stMVs, stMVSG, stOp>>

nonDrainVars == <<jobVars, listVars, gateVars, portVars, volVars, hostVars,
                  uhiVars, argVars, identVars, storeVars>>
nonJobVars == <<drainVars, listVars, gateVars, portVars, volVars, hostVars,
                uhiVars, argVars, identVars, storeVars>>
nonListVars == <<drainVars, jobVars, gateVars, portVars, volVars, hostVars,
                 uhiVars, argVars, identVars, storeVars>>
nonGateVars == <<drainVars, jobVars, listVars, portVars, volVars, hostVars,
                 uhiVars, argVars, identVars, storeVars>>
nonPortVars == <<drainVars, jobVars, listVars, gateVars, volVars, hostVars,
                 uhiVars, argVars, identVars, storeVars>>
nonVolVars == <<drainVars, jobVars, listVars, gateVars, portVars, hostVars,
                uhiVars, argVars, identVars, storeVars>>
nonHostVars == <<drainVars, jobVars, listVars, gateVars, portVars, volVars,
                 uhiVars, argVars, identVars, storeVars>>
nonUhiVars == <<drainVars, jobVars, listVars, gateVars, portVars, volVars,
                hostVars, argVars, identVars, storeVars>>
nonArgVars == <<drainVars, jobVars, listVars, gateVars, portVars, volVars,
                hostVars, uhiVars, identVars, storeVars>>
nonIdentVars == <<drainVars, jobVars, listVars, gateVars, portVars, volVars,
                  hostVars, uhiVars, argVars, storeVars>>
nonStoreVars == <<drainVars, jobVars, listVars, gateVars, portVars, volVars,
                  hostVars, uhiVars, argVars, identVars>>

vars == <<drainVars, jobVars, listVars, gateVars, portVars, volVars,
          hostVars, uhiVars, argVars, identVars, storeVars>>

\* ----------------------------------------------------------------- helpers
Min(a, b) == IF a < b THEN a ELSE b

Range(lo, hi) == [i \in 1..(IF hi >= lo THEN hi - lo + 1 ELSE 0) |-> lo + i - 1]

NoReq == [op |-> "NONE", from |-> 0, to |-> 0]
GetReq(f, t) == [op |-> "GET", from |-> f, to |-> t]
DeleteReq == [op |-> "DELETE", from |-> 0, to |-> 0]

NoRet == [kind |-> "none", err |-> "none", list |-> <<>>]
RetList(l) == [kind |-> "list", err |-> "none", list |-> l]
RetErr(e) == [kind |-> "err", err |-> e, list |-> <<>>]
RetPanic == [kind |-> "panic", err |-> "none", list |-> <<>>]

\* ------------------------------------------------------- the mock's jobs
NonTerminal == {"UNSCHEDULED", "SCHEDULED", "RUNNING"}
Terminal == {"SUCCEEDED", "FAILED"}

JobIDs == 1..MaxJobs

NoJob == [exists |-> FALSE, Status |-> "", InitialState |-> "",
          FinalState |-> "", Result |-> ""]

\* NewMockJob, lines 652-661: the job starts out SCHEDULED.
NewMockJob(initialState, finalState) ==
    [exists |-> TRUE, Status |-> "SCHEDULED", InitialState |-> initialState,
     FinalState |-> finalState, Result |-> ""]

\* returnJobByID, lines 701-708: the status served depends on the status the
\* previous read left behind.
returnJobByIDStuck(job) ==
    [job EXCEPT !.Status = job.InitialState, !.Result = "Mock job in-progress"]

returnJobByID(job) ==
    IF job.Status = job.InitialState
    THEN [job EXCEPT !.Status = job.FinalState, !.Result = "Mock job completed"]
    ELSE [job EXCEPT !.Status = job.InitialState, !.Result = "Mock job in-progress"]

RecordRead(rs, id, status) ==
    IF Len(rs[id]) < MaxReads THEN [rs EXCEPT ![id] = Append(@, status)] ELSE rs

NoInduced ==
    [GetJobError |-> FALSE, GetJobCannotFindRoleForUser |-> FALSE,
     JobFailedError |-> FALSE, UpdateStorageGroupError |-> FALSE,
     VolumeNotAddedError |-> FALSE, VolumeNotCreatedError |-> FALSE]

\* A test induces no error, or one.
InducedSettings ==
    {NoInduced} \cup {[NoInduced EXCEPT ![f] = TRUE] : f \in DOMAIN NoInduced}

\* handleJob for GET /job/{jobID}, lines 663-692, with returnJobByID 694-700.
handleJob(js, rs, ind, id) ==
    IF ind.GetJobError
    THEN [kind |-> "error", jobs |-> js, reads |-> rs, induced |-> ind,
          Status |-> "", Result |-> ""]
    ELSE IF ind.GetJobCannotFindRoleForUser
    THEN [kind |-> "error", jobs |-> js, reads |-> rs,
          induced |-> [ind EXCEPT !.GetJobCannotFindRoleForUser = FALSE],
          Status |-> "", Result |-> ""]
    ELSE IF ~js[id].exists
    THEN [kind |-> "notfound", jobs |-> js, reads |-> rs, induced |-> ind,
          Status |-> "", Result |-> ""]
    ELSE LET j == returnJobByID(js[id])
         IN  [kind |-> "ok", jobs |-> [js EXCEPT ![id] = j],
              reads |-> RecordRead(rs, id, j.Status), induced |-> ind,
              Status |-> j.Status, Result |-> j.Result]

\* handleStorageGroup PUT, lines 767-798, with addVolumeToStorageGroupTest
\* (1553-1575) for a create and addSpecificVolumeToStorageGroup (1577-1598)
\* for an add: the job is made and read once for the response.
handleStorageGroupPut(o, js, rs, ind, id) ==
    IF ind.UpdateStorageGroupError \/ (o = "AddVolumes" /\ ind.VolumeNotAddedError)
    THEN [kind |-> "error", jobs |-> js, reads |-> rs, created |-> FALSE,
          Status |-> ""]
    ELSE LET j == returnJobByID(NewMockJob("RUNNING",
                       IF ind.JobFailedError THEN "FAILED" ELSE "SUCCEEDED"))
         IN  [kind |-> "ok", jobs |-> [js EXCEPT ![id] = j],
              reads |-> [rs EXCEPT ![id] = <<j.Status>>],
              created |-> (o = "CreateVolume" /\ ~ind.VolumeNotCreatedError),
              Status |-> j.Status]

\* ----------------------------------------------------- WaitOnJobCompletion
\* A poll ends the loop when the decoded status is succeeded or failed.
PollEndsAlways(status) == TRUE

PollEnds(status) == status \in Terminal

NoWRet == [kind |-> "none", Status |-> "", Result |-> "", err |-> "none", last |-> ""]
WRetJob(st, res) == [kind |-> "job", Status |-> st, Result |-> res, err |-> "none", last |-> st]
WRetErrNoLast(e, l) == [kind |-> "err", Status |-> "", Result |-> "", err |-> e, last |-> ""]
WRetErr(e, l) == [kind |-> "err", Status |-> "", Result |-> "", err |-> e, last |-> l]

\* ---------------- AddVolumesToStorageGroup and CreateVolumeInStorageGroup
\* Lines 502-505 and 633-636: switch job.Status { case JobStatusFailed: ... }.
JobFailedNever(w) == FALSE

JobFailed(w) == w.Status = "FAILED"

\* GetCreateVolInSGPayload, lines 737-743, and GetAddVolumeToSGPayload, lines
\* 791-797: the execution option of the payload.
ExecutionOptionSync(isSync) == "SYNCHRONOUS"

ExecutionOption(isSync) == IF isSync THEN "SYNCHRONOUS" ELSE "ASYNCHRONOUS"

\* Lines 491 and 623: the payload of CreateVolumeInStorageGroup and of
\* AddVolumesToStorageGroup is made with isSync false.
GetPayload(o) == [ExecutionOption |-> ExecutionOption(FALSE)]

\* The steps of an operation: the PUT of UpdateStorageGroup with its
\* payload, the call of WaitOnJobCompletion, the call of
\* GetVolumeByIdentifier.
PutStep(payload) == [step |-> "put", option |-> payload.ExecutionOption]

WaitStep == [step |-> "wait", option |-> ""]

LookupStep == [step |-> "lookup", option |-> ""]


NoOpRet == [kind |-> "none", err |-> "none"]
OpOK(k) == [kind |-> k, err |-> "none"]
OpErr(e) == [kind |-> "err", err |-> e]

JobIdle ==
    /\ jobs = [i \in JobIDs |-> NoJob]
    /\ reads = [i \in JobIDs |-> <<>>]
    /\ induced = NoInduced
    /\ volumes = FALSE
    /\ cpc = "idle"
    /\ op = "none"
    /\ jobID = 0
    /\ polls = 0
    /\ lastStatus = ""
    /\ seen = <<>>
    /\ expired = FALSE
    /\ wret = NoWRet
    /\ opRet = NoOpRet
    /\ steps = <<>>

DrainIdle ==
    /\ iter = [Count |-> 0, MaxPageSize |-> 1, To |-> 0, VolumeList |-> <<>>]
    /\ srvMode = "exact"
    /\ srvLen = 0
    /\ pc = "idle"
    /\ from = 0
    /\ to = 0
    /\ volumeIDList = <<>>
    /\ deferred = FALSE
    /\ inflight = [op |-> "NONE", from |-> 0, to |-> 0]
    /\ received = 0
    /\ log = <<>>
    /\ ret = [kind |-> "none", err |-> "none", list |-> <<>>]
    /\ pages = <<>>
    /\ delRes = "none"

Listings == 1..2

NoListing ==
    [pc |-> "idle", iter |-> [Count |-> 0, MaxPageSize |-> 1, To |-> 0, VolumeList |-> <<>>],
     from |-> 0, list |-> <<>>, served |-> <<>>,
     ret |-> [kind |-> "none", err |-> "none", list |-> <<>>]]

ListIdle ==
    /\ nvol = [c \in Listings |-> 0]
    /\ srvList = <<>>
    /\ lst = [c \in Listings |-> NoListing]

GateIdle ==
    /\ allowed = {}
    /\ gop = "none"
    /\ gsym = 0
    /\ rest = <<>>
    /\ gerr = "none"

PortIdle ==
    /\ pgList = <<>>
    /\ inPorts = {}
    /\ pgPorts = {}
    /\ pgAdded = {}
    /\ pgRemoved = {}
    /\ pgInduced = [GetPortGroupError |-> FALSE, UpdatePortGroupError |-> FALSE]
    /\ ppc = "idle"
    /\ puts = <<>>
    /\ pgRet = "none"

VolIdle ==
    /\ mvol = <<>>
    /\ dvInduced = [DeleteVolumeError |-> FALSE, DeviceInSGError |-> FALSE]
    /\ dvpc = "idle"
    /\ dvVol = 0
    /\ dvRet = "none"

HostIdle ==
    /\ hostIDs = {}
    /\ hostInitiators = <<>>
    /\ initOwner = <<>>
    /\ Debug = FALSE
    /\ callerDebug = FALSE
    /\ chInduced = FALSE
    /\ chRet = "none"

UhiIdle ==
    /\ uhCur = <<>>
    /\ uhReq = <<>>
    /\ initAdd = <<>>
    /\ initRemove = <<>>
    /\ uhpc = "idle"
    /\ uhPuts = <<>>
    /\ uhRet = "none"
    /\ uhExists = FALSE
    /\ hostInduced = [UpdateHostError |-> FALSE, ResetAfterFirstError |-> FALSE]
    /\ checks = <<>>

ArgIdle ==
    /\ vop = "none"
    /\ varg = <<>>
    /\ vreqs = <<>>
    /\ verr = "none"

IdentIdle ==
    /\ gvVols = <<>>
    /\ gvArgs = <<>>
    /\ volIDList = <<>>
    /\ gvIdx = 0
    /\ gvGets = <<>>
    /\ gvpc = "idle"
    /\ gvRet = 0

StoreIdle ==
    /\ stSGs = {}
    /\ stNumOfVolumes = [i \in {} |-> 0]
    /\ stNumOfMVs = [i \in {} |-> 0]
    /\ stSGVolumes = [i \in {} |-> <<>>]
    /\ stVols = {}
    /\ stSGList = [i \in {} |-> <<>>]
    /\ stNumberOfSGs = [i \in {} |-> 0]
    /\ stMVs = {}
    /\ stMVSG = [i \in {} |-> 0]
    /\ stOp = [op |-> "none", id |-> 0, answer |-> "none"]

\* ------------------------------------------------- GetVolumeIDsIteratorPage
\* Lines 122-127: the range put in the query string.
PageToUnclamped(it, f, t) ==
    IF t = 0 \/ t - f + 1 > it.MaxPageSize THEN f + it.MaxPageSize - 1 ELSE t

PageToNoClamp(it, f, t) == PageToUnclamped(it, f, t)

PageTo(it, f, t) ==
    LET t1 == PageToUnclamped(it, f, t)
    IN  IF t1 > it.Count THEN it.Count ELSE t1

\* Lines 150-154: make([]string, to-from+1) filled from the decoded list.
\* A negative length and an index past the slice both panic.
PageResult(n, resp) ==
    IF n < 0 THEN RetPanic
    ELSE IF Len(resp) > n THEN RetPanic
    ELSE RetList([i \in 1..n |-> IF i <= Len(resp) THEN resp[i] ELSE 0])

\* ------------------------------------------------------------- the servers
\* A server that answers [f,t] with exactly the elements it holds there.
ExactPage(n, f, t) ==
    [kind |-> "ok", list |-> Range((IF f < 1 THEN 1 ELSE f), Min(t, n))]

\* handleIterator, lines 736-739: for i := From-1; i < To-1; i++, indexing
\* Data.VolumeIDIteratorList[i]; an index out of range aborts the response.
handleIterator(n, f, t) ==
    IF f <= t - 1 /\ (f < 1 \/ t - 1 > n)
    THEN [kind |-> "err", list |-> <<>>]
    ELSE [kind |-> "ok", list |-> Range(f, t - 1)]

\* A defective server that answers [f,t] one offset early: the element
\* before the range is served again and the last one of the range is not.
ShiftPage(n, f, t) ==
    [kind |-> "ok", list |-> Range((IF f - 1 < 1 THEN 1 ELSE f - 1), Min(t - 1, n))]

ServerPage(mode, n, f, t) ==
    IF mode = "exact" THEN ExactPage(n, f, t)
    ELSE IF mode = "shift" THEN ShiftPage(n, f, t)
    ELSE handleIterator(n, f, t)

\* ------------------------------------------------ volumeIteratorToVolIDList
\* Line 196: the DELETE is deferred only when more than one page exists.
NeedsDeleteNever(it) == FALSE
NeedsDeleteAlways(it) == TRUE

NeedsDelete(it) == it.MaxPageSize < it.Count

\* Line 209: where the walk starts.
FirstFromSame(it) == it.To

FirstFrom(it) == it.To + 1

\* Line 214: the page is appended to what was gathered so far.
AccumulateFront(l, idlist) == idlist \o l

Accumulate(l, idlist) == l \o idlist

\* Lines 211-213: if err != nil { return nil, err }.
OnFetchErrorRetry == "loop"

OnFetchError == "defer"

\* Line 215: the advance of the loop variable.
NextFromSkip(f, idlist) == f + Len(idlist) + 1

NextFromOne(f, idlist) == f + 1

NextFrom(f, idlist) == f + Len(idlist)

\* Lines 217-220: the final length check.
FinalCheck(it, l) ==
    IF Len(l) # it.Count THEN RetErr("mismatch") ELSE RetList(l)

PageSizes == (1..MaxPage) \cup {MockMaxPageSize}

Handle(c, m, t) ==
    [Count |-> c, MaxPageSize |-> m, To |-> t, VolumeList |-> Range(1, t)]

InitDrain ==
    /\ srvMode \in {"exact", "mock", "shift"}
    /\ srvLen \in 0..MaxCount
    /\ \E m \in PageSizes, x \in 0..MaxExtra :
         /\ srvLen + x <= MaxCount
         /\ \E t \in 0..Min(srvLen, m) : iter = Handle(srvLen + x, m, t)
    /\ pc = "idle"
    /\ from = 0
    /\ volumeIDList = <<>>
    /\ deferred = FALSE
    /\ inflight = NoReq
    /\ received = 0
    /\ log = <<>>
    /\ ret = NoRet
    /\ to = 0
    /\ pages = <<>>
    /\ delRes = "none"
    /\ JobIdle
    /\ ListIdle
    /\ GateIdle
    /\ PortIdle
    /\ VolIdle
    /\ HostIdle
    /\ UhiIdle
    /\ ArgIdle
    /\ IdentIdle
    /\ StoreIdle

\* Lines 195-206: entry, the deferred DELETE and the inline first page.
DrainStart ==
    /\ pc = "idle"
    /\ deferred' = NeedsDelete(iter)
    /\ volumeIDList' = iter.VolumeList
    /\ received' = Len(iter.VolumeList)
    /\ from' = FirstFrom(iter)
    /\ pc' = "loop"
    /\ UNCHANGED <<iter, srvMode, srvLen, inflight, log, ret, to, pages, delRes>>
    /\ UNCHANGED nonDrainVars

\* Line 209-210 with 122-134: the loop test and the page GET put on the wire.
DrainRequest ==
    /\ pc = "loop"
    /\ from <= iter.Count
    /\ LET req == GetReq(from, PageTo(iter, from, 0))
       IN  /\ inflight' = req
           /\ log' = Append(log, req)
    /\ pc' = "await"
    /\ UNCHANGED <<iter, srvMode, srvLen, from, volumeIDList, deferred,
                   received, ret, to, pages, delRes>>
    /\ UNCHANGED nonDrainVars

\* Lines 135-155 and 211-215: the response, decoded and appended.
DrainResponse ==
    /\ pc = "await"
    /\ LET resp == ServerPage(srvMode, srvLen, inflight.from, inflight.to)
           page == PageResult(inflight.to - inflight.from + 1, resp.list)
       IN  \/ /\ resp.kind = "ok"
              /\ page.kind = "list"
              /\ volumeIDList' = Accumulate(volumeIDList, page.list)
              /\ from' = NextFrom(from, page.list)
              /\ received' = received + Len(resp.list)
              /\ pages' = Append(pages, [served |-> resp.list, idlist |-> page.list])
              /\ pc' = "loop"
              /\ ret' = ret
           \/ /\ resp.kind = "ok"
              /\ page.kind = "panic"
              /\ ret' = RetPanic
              /\ pc' = "defer"
              /\ UNCHANGED <<volumeIDList, from, received, pages>>
           \/ \* transport error, bad status or undecodable body
              /\ ret' = RetErr("fetch")
              /\ pc' = OnFetchError
              /\ UNCHANGED <<volumeIDList, from, received, pages>>
    /\ inflight' = NoReq
    /\ UNCHANGED <<iter, srvMode, srvLen, deferred, log, to, delRes>>
    /\ UNCHANGED nonDrainVars

\* Lines 209 (loop exit) and 217-220.
DrainCheck ==
    /\ pc = "loop"
    /\ ~(from <= iter.Count)
    /\ ret' = FinalCheck(iter, volumeIDList)
    /\ pc' = "defer"
    /\ UNCHANGED <<iter, srvMode, srvLen, from, volumeIDList, deferred,
                   inflight, received, log, to, pages, delRes>>
    /\ UNCHANGED nonDrainVars

\* Line 198: defer c.DeleteVolumeIDsIterator(ctx, iter) discards the error
\* the DELETE returns; the results of the drain are already set.
AfterDeferPropagates(r, failed) == IF failed THEN RetErr("delete") ELSE r

AfterDefer(r, failed) == r

\* Lines 198 and 157-168: the deferred DELETE runs on every way out, and
\* succeeds or fails.
DrainDefer ==
    /\ pc = "defer"
    /\ IF deferred
       THEN \E failed \in BOOLEAN :
                /\ log' = Append(log, DeleteReq)
                /\ delRes' = IF failed THEN "failed" ELSE "ok"
                /\ ret' = AfterDefer(ret, failed)
       ELSE UNCHANGED <<log, delRes, ret>>
    /\ pc' = "done"
    /\ UNCHANGED <<iter, srvMode, srvLen, from, volumeIDList, deferred,
                   inflight, received, to, pages>>
    /\ UNCHANGED nonDrainVars

NextDrain ==
    \/ DrainStart
    \/ DrainRequest
    \/ DrainResponse
    \/ DrainCheck
    \/ DrainDefer

SpecDrain == InitDrain /\ [][NextDrain]_vars

\* ------------------------------------------- the claims on the drain (C1..C8)
Gets == SelectSeq(log, LAMBDA r : r.op = "GET")
Deletes == SelectSeq(log, LAMBDA r : r.op = "DELETE")

\* C1: against a server that answers every page request [from,to] with exactly
\* the elements at those offsets, a drain whose page GETs all succeed returns
\* exactly count elements, in ascending offset order and without duplicates:
\* the list 1, 2, ..., count. This covers count in {0, 1, maxPageSize,
\* maxPageSize+1, 3*maxPageSize+2}.
C1_DrainCompleteness ==
    (pc = "done" /\ srvMode = "exact" /\ iter.Count = srvLen /\ ret.err # "fetch")
        => ret = RetList(Range(1, iter.Count))

C1_Witness ==
    /\ pc = "done"
    /\ srvMode = "exact"
    /\ iter.Count = srvLen
    /\ iter.Count = 3 * iter.MaxPageSize + 2
    /\ iter.To = iter.MaxPageSize
    /\ ret.kind = "list"
    /\ Len(ret.list) = iter.Count
    /\ Len(Gets) = 3

\* C2: when the declared count is higher than the number of elements the first
\* page and the fetched pages delivered, the drain fails with the
\* count-mismatch error and returns no list.
C2_DesyncDetected ==
    (pc = "done" /\ iter.Count > received /\ ret.err # "fetch" /\ ret.kind # "panic")
        => ret = RetErr("mismatch")

\* C6: whenever count > maxPageSize one drain issues exactly one DELETE, and
\* it is the last request of the call (after the last page GET); none is
\* issued before the call is over.
C6_MultiPageCleanup ==
    iter.Count > iter.MaxPageSize =>
        /\ Len(Deletes) = (IF pc = "done" THEN 1 ELSE 0)
        /\ pc = "done" => log[Len(log)].op = "DELETE"

C6_Witness ==
    /\ pc = "done"
    /\ iter.Count > iter.MaxPageSize
    /\ Len(Gets) >= 2
    /\ Len(Deletes) = 1
    /\ log[Len(log)] = DeleteReq
    /\ ret.kind = "list"

\* C7: whenever count <= maxPageSize no DELETE is ever issued, on the success
\* path and on every error path.
C7_SinglePageSkipDelete ==
    iter.Count <= iter.MaxPageSize => Len(Deletes) = 0

C7_Witness ==
    /\ pc = "done"
    /\ iter.Count <= iter.MaxPageSize
    /\ Len(Gets) >= 1
    /\ ret.err = "fetch"
    /\ Len(Deletes) = 0

\* C8: the page requests of one drain start at firstPage.to + 1, each next
\* one starts right after the previous range, every range is non-empty and
\* holds maxPageSize offsets except possibly the last, at most one request is
\* on the wire, and a drain that ends without a fetch error has covered
\* exactly [firstPage.to + 1, count]; count = 25, maxPageSize = 10 with the
\* inline page [1,10] gives GET [11,20], GET [21,25], DELETE.
C8_PageWalkSchedule ==
    /\ Len(Gets) >= 1 => Gets[1].from = iter.To + 1
    /\ \A i \in 1..Len(Gets) :
         /\ Gets[i].from <= Gets[i].to
         /\ Gets[i].to - Gets[i].from + 1 <= iter.MaxPageSize
         /\ Gets[i].to <= iter.Count
         /\ i > 1 => Gets[i].from = Gets[i - 1].to + 1
         /\ i < Len(Gets) => Gets[i].to - Gets[i].from + 1 = iter.MaxPageSize
    /\ inflight # NoReq => (pc = "await" /\ inflight = log[Len(log)])
    /\ (pc = "done" /\ ret.err # "fetch" /\ ret.kind # "panic") =>
         IF iter.To >= iter.Count THEN Len(Gets) = 0
         ELSE Len(Gets) >= 1 /\ Gets[Len(Gets)].to = iter.Count
    /\ (pc = "done" /\ ret.err # "fetch" /\ iter.Count = 25
          /\ iter.MaxPageSize = 10 /\ iter.To = 10) =>
         log = <<GetReq(11, 20), GetReq(21, 25), DeleteReq>>

C8_Witness ==
    /\ pc = "done"
    /\ iter.Count = 25
    /\ iter.MaxPageSize = 10
    /\ iter.To = 10
    /\ log = <<GetReq(11, 20), GetReq(21, 25), DeleteReq>>

\* ------------------------------------ the claims on the drain (C11, C12)
RECURSIVE Returned(_)
Returned(ps) ==
    IF ps = <<>> THEN <<>>
    ELSE Returned(SubSeq(ps, 1, Len(ps) - 1)) \o ps[Len(ps)].idlist

RECURSIVE Served(_)
Served(ps) ==
    IF ps = <<>> THEN <<>>
    ELSE Served(SubSeq(ps, 1, Len(ps) - 1)) \o ps[Len(ps)].served

Strip(l) == SelectSeq(l, LAMBDA e : e # 0)

HasDup(l) == \E i \in 1..Len(l), j \in 1..Len(l) : i < j /\ l[i] = l[j]

HasGap(l) == \E i \in 1..(Len(l) - 1) : l[i + 1] > l[i] + 1

\* C11: what the drain has gathered is always the inline first page followed
\* by the pages its fetches returned, in the order they were requested, and
\* the list of a successful drain holds every element the server delivered,
\* in the order delivered, duplicates included (only "" padding is added).
C11_Ordering ==
    /\ pc \in {"loop", "await", "defer", "done"} =>
         /\ volumeIDList = iter.VolumeList \o Returned(pages)
         /\ Len(pages) <= Len(Gets)
    /\ (pc = "done" /\ ret.kind = "list") =>
         /\ ret.list = iter.VolumeList \o Returned(pages)
         /\ Len(pages) = Len(Gets)
         /\ Strip(ret.list) = iter.VolumeList \o Served(pages)

C11_Witness ==
    /\ pc = "done"
    /\ srvMode = "shift"
    /\ ret.kind = "list"
    /\ Len(pages) >= 2
    /\ HasDup(Strip(ret.list))
    /\ Strip(ret.list) = iter.VolumeList \o Served(pages)

\* C12: when the pages served for the iterator repeat an element or skip one
\* of the server's result set, the drain fails with the count-mismatch error
\* and returns no list.
C12_DupOrGapIsError ==
    (/\ pc = "done"
     /\ iter.Count = srvLen
     /\ ret.err # "fetch"
     /\ ret.kind # "panic"
     /\ \/ HasDup(iter.VolumeList \o Served(pages))
        \/ HasGap(iter.VolumeList \o Served(pages)))
        => ret = RetErr("mismatch")

\* C17: a page GET that fails ends the drain: the error is returned without
\* a list, the failed GET is the last page GET of the call, and the DELETE
\* is issued exactly once when count > maxPageSize and not at all otherwise.
C17_FetchErrorPropagated ==
    ret.err = "fetch" =>
        /\ ret = RetErr("fetch")
        /\ pc \in {"defer", "done"}
        /\ Len(Gets) = Len(pages) + 1
        /\ Len(Deletes) =
             (IF pc = "done" /\ iter.Count > iter.MaxPageSize THEN 1 ELSE 0)
        /\ Len(Deletes) = 1 => log[Len(log)] = DeleteReq

C17_Witness ==
    /\ pc = "done"
    /\ ret = RetErr("fetch")
    /\ iter.Count > iter.MaxPageSize
    /\ Len(pages) = 1
    /\ Len(Gets) = 2
    /\ log[Len(log)] = DeleteReq
    /\ Len(Deletes) = 1

\* C18: running the deferred DELETE leaves what the drain returns untouched,
\* whether the DELETE succeeds or fails; a DELETE failure is never what the
\* drain returns.
C18_ReleaseBestEffort ==
    /\ [][pc = "defer" => ret' = ret]_vars
    /\ [](delRes = "failed" => ret.err \in {"none", "fetch", "mismatch"})

C18_Witness ==
    /\ pc = "done"
    /\ delRes = "failed"
    /\ Len(Deletes) = 1
    /\ ret = RetList(Range(1, iter.Count))

\* -------------------------------------- a direct GetVolumeIDsIteratorPage call
InitPage ==
    /\ srvMode \in {"exact", "mock"}
    /\ srvLen \in 0..MaxArg
    /\ \E m \in PageSizes : iter = Handle(srvLen, m, Min(srvLen, m))
    /\ pc = "idle"
    /\ from = 0
    /\ to = 0
    /\ volumeIDList = <<>>
    /\ deferred = FALSE
    /\ inflight = NoReq
    /\ received = 0
    /\ log = <<>>
    /\ ret = NoRet
    /\ pages = <<>>
    /\ delRes = "none"
    /\ JobIdle
    /\ ListIdle
    /\ GateIdle
    /\ PortIdle
    /\ VolIdle
    /\ HostIdle
    /\ UhiIdle
    /\ ArgIdle
    /\ IdentIdle
    /\ StoreIdle

\* Lines 120-134: the range is fixed and the GET put on the wire.
PageCall ==
    /\ pc = "idle"
    /\ \E f \in 0..(MaxArg + 2), t \in 0..(MaxArg + 2) :
         /\ from' = f
         /\ to' = t
         /\ inflight' = GetReq(f, PageTo(iter, f, t))
         /\ log' = Append(log, GetReq(f, PageTo(iter, f, t)))
    /\ pc' = "pawait"
    /\ UNCHANGED <<iter, srvMode, srvLen, volumeIDList, deferred, received, ret,
                   pages, delRes>>
    /\ UNCHANGED nonDrainVars

\* Lines 135-155: the response, or the error, is returned.
PageReturn ==
    /\ pc = "pawait"
    /\ LET resp == ServerPage(srvMode, srvLen, inflight.from, inflight.to)
       IN  \/ /\ resp.kind = "ok"
              /\ ret' = PageResult(inflight.to - inflight.from + 1, resp.list)
              /\ received' = Len(resp.list)
           \/ /\ ret' = RetErr("fetch")
              /\ received' = received
    /\ inflight' = NoReq
    /\ pc' = "pdone"
    /\ UNCHANGED <<iter, srvMode, srvLen, from, to, volumeIDList, deferred, log,
                   pages, delRes>>
    /\ UNCHANGED nonDrainVars

NextPage ==
    \/ PageCall
    \/ PageReturn

SpecPage == InitPage /\ [][NextPage]_vars

\* C9: a call with 1 <= from <= count requests a range with
\* to - from + 1 <= maxPageSize and to <= count, and a to of 0 becomes
\* from + maxPageSize - 1 clamped to count.
C9_PageRangeInvariant ==
    (pc \in {"pawait", "pdone"} /\ 1 <= from /\ from <= iter.Count) =>
        /\ log[1].from = from
        /\ log[1].to - log[1].from + 1 <= iter.MaxPageSize
        /\ log[1].to <= iter.Count
        /\ to = 0 => log[1].to = Min(from + iter.MaxPageSize - 1, iter.Count)

C9_Witness ==
    /\ pc = "pdone"
    /\ 1 <= from
    /\ from <= iter.Count
    /\ to = 0
    /\ from + iter.MaxPageSize - 1 > iter.Count
    /\ log = <<GetReq(from, iter.Count)>>
    /\ ret.kind = "list"

\* C10: a call with from > count fails with a returned error; it neither
\* returns a list nor ends in a panic.
C10_OutOfRangeIsError ==
    (pc = "pdone" /\ from > iter.Count) => ret.kind = "err"

\* C19: the mock's listing response carries maxPageSize 10 and the inline
\* first page 1..min(count,10), and its answer to a page GET with
\* 1 <= from <= to <= count holds exactly the to - from + 1 elements at the
\* offsets from..to.
C19_MockInclusivePages ==
    (srvMode = "mock" /\ iter.MaxPageSize = MockMaxPageSize) =>
        /\ iter.MaxPageSize >= 1
        /\ iter.To = Min(iter.Count, MockMaxPageSize)
        /\ iter.VolumeList = Range(1, iter.To)
        /\ (/\ pc = "pdone"
            /\ ret.err # "fetch"
            /\ 1 <= log[1].from
            /\ log[1].from <= log[1].to
            /\ log[1].to <= srvLen) =>
               /\ received = log[1].to - log[1].from + 1
               /\ ret = RetList(Range(log[1].from, log[1].to))

\* ------------------------------------------------------- the job poller
InitJob ==
    /\ DrainIdle
    /\ ListIdle
    /\ GateIdle
    /\ PortIdle
    /\ VolIdle
    /\ HostIdle
    /\ UhiIdle
    /\ ArgIdle
    /\ IdentIdle
    /\ StoreIdle
    /\ jobs = [i \in JobIDs |-> NoJob]
    /\ reads = [i \in JobIDs |-> <<>>]
    /\ induced \in InducedSettings
    /\ volumes = FALSE
    /\ cpc = "idle"
    /\ op = "none"
    /\ jobID = 0
    /\ polls = 0
    /\ lastStatus = ""
    /\ seen = <<>>
    /\ expired = FALSE
    /\ wret = NoWRet
    /\ opRet = NoOpRet
    /\ steps = <<>>

\* A test makes a job of its own: NewMockJob, lines 652-661.
MockNewJob ==
    /\ cpc = "idle"
    /\ \E id \in JobIDs, i \in NonTerminal, f \in Terminal :
         /\ jobs' = [jobs EXCEPT ![id] = NewMockJob(i, f)]
         /\ reads' = [reads EXCEPT ![id] = <<>>]
    /\ UNCHANGED <<induced, volumes, cpc, op, jobID, polls, lastStatus, seen,
                   expired, wret, opRet>>
    /\ UNCHANGED steps
    /\ UNCHANGED nonJobVars

\* GetJobByID: one GET /job/{jobID}.
GetJobByID ==
    /\ cpc = "idle"
    /\ \E id \in JobIDs :
         /\ Len(reads[id]) < MaxReads
         /\ LET r == handleJob(jobs, reads, induced, id)
            IN  /\ jobs' = r.jobs
                /\ reads' = r.reads
                /\ induced' = r.induced
    /\ UNCHANGED <<volumes, cpc, op, jobID, polls, lastStatus, seen, expired,
                   wret, opRet>>
    /\ UNCHANGED steps
    /\ UNCHANGED nonJobVars

\* WaitOnJobCompletion called on its own.
StartWait ==
    /\ cpc = "idle"
    /\ \E id \in JobIDs : jobID' = id
    /\ op' = "Wait"
    /\ cpc' = "wait"
    /\ polls' = 0
    /\ lastStatus' = ""
    /\ seen' = <<>>
    /\ expired' = FALSE
    /\ wret' = NoWRet
    /\ opRet' = NoOpRet
    /\ UNCHANGED <<jobs, reads, induced, volumes>>
    /\ steps' = <<WaitStep>>
    /\ UNCHANGED nonJobVars

\* AddVolumesToStorageGroup, lines 614-623: the empty list is refused before
\* any request.
StartAddVolumes ==
    /\ cpc = "idle"
    /\ op' = "AddVolumes"
    /\ \E n \in 0..1 :
         IF n = 0
         THEN /\ opRet' = OpErr("empty")
              /\ cpc' = "done"
         ELSE /\ opRet' = NoOpRet
              /\ cpc' = "put"
    /\ jobID' = 0
    /\ polls' = 0
    /\ lastStatus' = ""
    /\ seen' = <<>>
    /\ expired' = FALSE
    /\ wret' = NoWRet
    /\ UNCHANGED <<jobs, reads, induced, volumes>>
    /\ steps' = <<>>
    /\ UNCHANGED nonJobVars

\* CreateVolumeInStorageGroup, lines 479-492: the name length check.
StartCreateVolume ==
    /\ cpc = "idle"
    /\ op' = "CreateVolume"
    /\ \E n \in {MaxVolIdentifierLength, MaxVolIdentifierLength + 1} :
         IF n > MaxVolIdentifierLength
         THEN /\ opRet' = OpErr("name")
              /\ cpc' = "done"
         ELSE /\ opRet' = NoOpRet
              /\ cpc' = "put"
    /\ jobID' = 0
    /\ polls' = 0
    /\ lastStatus' = ""
    /\ seen' = <<>>
    /\ expired' = FALSE
    /\ wret' = NoWRet
    /\ UNCHANGED <<jobs, reads, induced, volumes>>
    /\ steps' = <<>>
    /\ UNCHANGED nonJobVars

\* UpdateStorageGroup (421-441) answered by the mock; lines 493-497 and
\* 624-628: no job, no wait.
PutResponse ==
    /\ cpc = "put"
    /\ \E id \in JobIDs :
         LET r == handleStorageGroupPut(op, jobs, reads, induced, id)
         IN  IF r.kind = "error"
             THEN /\ opRet' = OpErr("nojob")
                  /\ cpc' = "done"
                  /\ UNCHANGED <<jobs, reads, volumes, jobID, lastStatus>>
             ELSE /\ jobs' = r.jobs
                  /\ reads' = r.reads
                  /\ volumes' = (volumes \/ r.created)
                  /\ jobID' = id
                  /\ lastStatus' = r.Status
                  /\ cpc' = "wait"
                  /\ opRet' = opRet
    /\ UNCHANGED <<induced, op, polls, seen, expired, wret>>
    /\ steps' = steps \o <<PutStep(GetPayload(op))>>
                  \o (IF cpc' = "wait" THEN <<WaitStep>> ELSE <<>>)
    /\ UNCHANGED nonJobVars

\* The poll loop issues its next GET /job/{jobID}.
WaitPoll ==
    /\ cpc = "wait"
    /\ ~expired
    /\ polls' = IF polls < MaxPolls THEN polls + 1 ELSE polls
    /\ cpc' = "get"
    /\ UNCHANGED <<jobs, reads, induced, volumes, op, jobID, lastStatus, seen,
                   expired, wret, opRet>>
    /\ UNCHANGED steps
    /\ UNCHANGED nonJobVars

AfterWait == IF op = "Wait" THEN "done" ELSE "switch"

\* What one job GET reported: the decoded status, or the failure.
Outcome(r) ==
    IF r.kind = "notfound" THEN "404"
    ELSE IF r.kind = "error" THEN "error"
    ELSE r.Status

\* Only a decoded job that is not yet succeeded or failed is polled again.
RetriedNotFound(r) == r.kind = "notfound" \/ (r.kind = "ok" /\ ~PollEnds(r.Status))

Retried(r) == r.kind = "ok" /\ ~PollEnds(r.Status)

\* The GET is answered before the deadline: a terminal status ends the loop,
\* a non-terminal one leads to the sleep and the next poll, an error is
\* returned at once.
WaitResponse ==
    /\ cpc = "get"
    /\ ~expired
    /\ LET r == handleJob(jobs, reads, induced, jobID)
       IN  /\ jobs' = r.jobs
           /\ reads' = r.reads
           /\ induced' = r.induced
           /\ seen' = IF Len(seen) < MaxPolls THEN Append(seen, Outcome(r)) ELSE seen
           /\ IF Retried(r)
              THEN /\ wret' = wret
                   /\ cpc' = "wait"
                   /\ lastStatus' = IF r.kind = "ok" THEN r.Status ELSE lastStatus
              ELSE IF r.kind = "notfound"
              THEN /\ wret' = WRetErr("notfound", lastStatus)
                   /\ cpc' = AfterWait
                   /\ lastStatus' = lastStatus
              ELSE IF r.kind = "error"
              THEN /\ wret' = WRetErr("get", lastStatus)
                   /\ cpc' = AfterWait
                   /\ lastStatus' = lastStatus
              ELSE /\ wret' = WRetJob(r.Status, r.Result)
                   /\ cpc' = AfterWait
                   /\ lastStatus' = r.Status
    /\ UNCHANGED <<volumes, op, jobID, polls, expired, opRet>>
    /\ UNCHANGED steps
    /\ UNCHANGED nonJobVars

\* The caller's deadline passes while the wait is under way.
DeadlineExpires ==
    /\ cpc \in {"wait", "get"}
    /\ ~expired
    /\ expired' = TRUE
    /\ UNCHANGED <<jobs, reads, induced, volumes, cpc, op, jobID, polls,
                   lastStatus, seen, wret, opRet>>
    /\ UNCHANGED steps
    /\ UNCHANGED nonJobVars

\* The expired deadline ends the wait with a timeout error that carries the
\* last status seen. A GET that was on the wire is abandoned; the mock may
\* have handled it all the same.
WaitTimeout ==
    /\ cpc \in {"wait", "get"}
    /\ expired
    /\ wret' = WRetErr("timeout", lastStatus)
    /\ cpc' = AfterWait
    /\ \/ UNCHANGED <<jobs, reads, induced>>
       \/ /\ cpc = "get"
          /\ LET r == handleJob(jobs, reads, induced, jobID)
             IN  /\ jobs' = r.jobs
                 /\ reads' = r.reads
                 /\ induced' = r.induced
    /\ UNCHANGED <<volumes, op, jobID, polls, lastStatus, seen, expired, opRet>>
    /\ UNCHANGED steps
    /\ UNCHANGED nonJobVars

\* Lines 498-506 and 629-637: the caller's handling of what the wait returned.
OpSwitch ==
    /\ cpc = "switch"
    /\ IF wret.kind = "err"
       THEN /\ opRet' = OpErr(wret.err)
            /\ cpc' = "done"
       ELSE IF JobFailed(wret)
       THEN /\ opRet' = OpErr("jobfailed")
            /\ cpc' = "done"
       ELSE IF op = "AddVolumes"
       THEN /\ opRet' = OpOK("nil")
            /\ cpc' = "done"
       ELSE /\ opRet' = opRet
            /\ cpc' = "lookup"
    /\ UNCHANGED <<jobs, reads, induced, volumes, op, jobID, polls,
                   lastStatus, seen, expired, wret>>
    /\ UNCHANGED steps
    /\ UNCHANGED nonJobVars

\* Lines 506-507: GetVolumeByIdentifier finds the volume the mock created,
\* or fails.
Lookup ==
    /\ cpc = "lookup"
    /\ opRet' = IF volumes THEN OpOK("volume") ELSE OpErr("notfound")
    /\ cpc' = "done"
    /\ UNCHANGED <<jobs, reads, induced, volumes, op, jobID, polls,
                   lastStatus, seen, expired, wret>>
    /\ steps' = Append(steps, LookupStep)
    /\ UNCHANGED nonJobVars

\* The operation has returned; the client is free for the next one.
Return ==
    /\ cpc = "done"
    /\ cpc' = "idle"
    /\ op' = "none"
    /\ jobID' = 0
    /\ polls' = 0
    /\ lastStatus' = ""
    /\ seen' = <<>>
    /\ expired' = FALSE
    /\ wret' = NoWRet
    /\ opRet' = NoOpRet
    /\ UNCHANGED <<jobs, reads, induced, volumes>>
    /\ steps' = <<>>
    /\ UNCHANGED nonJobVars

NextJob ==
    \/ MockNewJob
    \/ GetJobByID
    \/ StartWait
    \/ StartAddVolumes
    \/ StartCreateVolume
    \/ PutResponse
    \/ WaitPoll
    \/ WaitResponse
    \/ DeadlineExpires
    \/ WaitTimeout
    \/ OpSwitch
    \/ Lookup
    \/ Return

SpecJob == InitJob /\ [][NextJob]_vars

\* The client is a running thread and the mock answers every request: each
\* step of an operation under way is eventually taken. The deadline may or
\* may not pass.
ClientStep ==
    PutResponse \/ WaitPoll \/ WaitResponse \/ WaitTimeout \/ OpSwitch \/ Lookup

FairSpecJob == SpecJob /\ WF_vars(ClientStep)

\* ------------------------------------------ the claims on the jobs (C3..C5)
Waiting == cpc \in {"wait", "get"}

\* C3: a wait on a job of the mock always returns; a job it returns has
\* status SUCCEEDED or FAILED, never UNSCHEDULED, SCHEDULED or RUNNING; and it
\* returns a timeout only after the deadline has passed and not-found only
\* for a job the mock does not hold.
C3_JobTerminalConvergence ==
    /\ [](wret.kind = "job" => wret.Status \in Terminal)
    /\ [](wret.err = "timeout" => expired)
    /\ [](wret.err = "notfound" => ~jobs[jobID].exists)
    /\ (Waiting ~> wret.kind # "none")

C3_Witness ==
    /\ op = "Wait"
    /\ cpc = "done"
    /\ ~expired
    /\ polls = 2
    /\ reads[jobID] = <<"RUNNING", "SUCCEEDED">>
    /\ wret = WRetJob("SUCCEEDED", "Mock job completed")

\* C4: for a job made by NewMockJob with a non-terminal InitialState and a
\* terminal FinalState, the first read reports InitialState and every later
\* read FinalState, so no non-terminal status follows a terminal one.
C4_TerminalAbsorbing ==
    \A id \in JobIDs :
        jobs[id].exists =>
            /\ \A k \in 1..Len(reads[id]) :
                 reads[id][k] = IF k = 1 THEN jobs[id].InitialState
                                ELSE jobs[id].FinalState
            /\ \A k \in 1..Len(reads[id]), l \in 1..Len(reads[id]) :
                 (k < l /\ reads[id][k] \in Terminal) => reads[id][l] \in Terminal

\* C5: AddVolumesToStorageGroup returns nil, and CreateVolumeInStorageGroup a
\* volume, only if UpdateStorageGroup returned a job, the wait returned
\* without error and the job it returned is not FAILED; a FAILED job makes
\* both return an error.
C5_FailedJobNeverSuccess ==
    (cpc = "done" /\ op \in {"AddVolumes", "CreateVolume"}) =>
        /\ opRet.kind \in {"nil", "volume"} =>
             (jobID \in JobIDs /\ wret.kind = "job" /\ wret.Status # "FAILED")
        /\ (wret.kind = "job" /\ wret.Status = "FAILED") => opRet.kind = "err"

C5_Witness ==
    /\ cpc = "done"
    /\ op = "AddVolumes"
    /\ wret.kind = "job"
    /\ wret.Status = "FAILED"
    /\ opRet = OpErr("jobfailed")

\* ---------------------------------- the claims on the poller (C14..C16)
\* C14: the job GETs of one wait are issued one at a time, every GET but the
\* last reported a non-terminal status, and a wait that returns a job has
\* issued exactly as many GETs as it got answers, the last of them being the
\* first terminal one, whose status and result are what is returned (RUNNING
\* then SUCCEEDED: 2 GETs, status SUCCEEDED, the result of that response).
C14_PollingStopsAtFirstTerminal ==
    /\ Len(seen) <= polls
    /\ polls <= Len(seen) + 1
    /\ cpc = "wait" => polls = Len(seen)
    /\ \A i \in 1..(Len(seen) - 1) : seen[i] \in NonTerminal
    /\ wret.kind = "job" =>
         /\ polls = Len(seen)
         /\ polls >= 1
         /\ seen[Len(seen)] = wret.Status
         /\ wret.Status \in Terminal
         /\ wret.Status = jobs[jobID].Status
         /\ wret.Result = jobs[jobID].Result

C14_Witness ==
    /\ op = "Wait"
    /\ cpc = "done"
    /\ seen = <<"RUNNING", "SUCCEEDED">>
    /\ polls = 2
    /\ wret.kind = "job"
    /\ wret.Status = "SUCCEEDED"
    /\ wret.Result = jobs[jobID].Result

\* C15: a job GET answered with not-found is the last GET of the wait: the
\* wait has returned an error for it and polls no more.
C15_NotFoundNotRetried ==
    \A i \in 1..Len(seen) :
        seen[i] = "404" =>
            /\ i = Len(seen)
            /\ polls = i
            /\ cpc \notin {"wait", "get"}
            /\ wret.kind = "err"
            /\ wret.err = "notfound"

C15_Witness ==
    /\ op = "Wait"
    /\ cpc = "done"
    /\ ~jobs[jobID].exists
    /\ seen = <<"404">>
    /\ polls = 1
    /\ wret.err = "notfound"

\* C16: once the deadline has passed during a wait, what the wait returns is
\* the timeout error and never a job, the error carries the last status a GET
\* reported (a non-terminal one), and no job GET is issued after the expiry.
C16_TimeoutPropagation ==
    /\ []((expired /\ wret.kind # "none") =>
            /\ wret.kind = "err"
            /\ wret.err = "timeout"
            /\ wret.last = lastStatus
            /\ wret.last \notin Terminal
            /\ Len(seen) > 0 => wret.last = seen[Len(seen)])
    /\ [][(expired /\ expired') => polls' = polls]_vars

C16_Witness ==
    /\ cpc = "done"
    /\ expired
    /\ seen = <<"RUNNING">>
    /\ polls = 1
    /\ wret = WRetErr("timeout", "RUNNING")

\* ------------------------------------- two listings against the one mock
\* A volume id of the mock: the i-th volume whose identifier matches filter c.
\* Ids of filter 1 are odd, ids of filter 2 even; 0 stays the "" padding.
VolID(c, i) == 2 * i - (2 - c)

Matching(c) == [i \in 1..nvol[c] |-> VolID(c, i)]

ResultSet(c) == {VolID(c, i) : i \in 1..nvol[c]}

Elems(l) == {l[i] : i \in 1..Len(l)}

\* handleVolume, lines 469-503: the listing fills Data.VolumeIDIteratorList
\* with the matching volumes and answers with the iterator and its first page.
handleVolume(list) ==
    [Count |-> Len(list), MaxPageSize |-> MockMaxPageSize,
     To |-> Min(Len(list), MockMaxPageSize),
     VolumeList |-> SubSeq(list, 1, Min(Len(list), MockMaxPageSize))]

\* handleIterator, lines 717-751, on the list the mock holds now: the iterId
\* of the URL is printed and not otherwise used.
handleIteratorList(list, f, t) ==
    LET r == handleIterator(Len(list), f, t)
    IN  [kind |-> r.kind, list |-> [i \in 1..Len(r.list) |-> list[r.list[i]]]]

InitList ==
    /\ DrainIdle
    /\ JobIdle
    /\ GateIdle
    /\ PortIdle
    /\ VolIdle
    /\ HostIdle
    /\ UhiIdle
    /\ ArgIdle
    /\ IdentIdle
    /\ StoreIdle
    /\ nvol \in [Listings -> 0..MaxList]
    /\ srvList = <<>>
    /\ lst = [c \in Listings |-> NoListing]

\* GetVolumeIDList, lines 174-183, with getVolumeIDsIteratorBase (91-116)
\* answered by handleVolume, and lines 195-209 of the drain.
ListOpen(c) ==
    /\ lst[c].pc = "idle"
    /\ srvList' = Matching(c)
    /\ LET it == handleVolume(Matching(c))
       IN  lst' = [lst EXCEPT ![c] =
                     [pc |-> "loop", iter |-> it, from |-> FirstFrom(it),
                      list |-> it.VolumeList, served |-> <<>>, ret |-> NoRet]]
    /\ UNCHANGED nvol
    /\ UNCHANGED nonListVars

\* Lines 209-215 with 120-155: one page GET, answered by handleIterator.
ListPage(c) ==
    /\ lst[c].pc = "loop"
    /\ lst[c].from <= lst[c].iter.Count
    /\ LET f == lst[c].from
           t == PageTo(lst[c].iter, f, 0)
           resp == handleIteratorList(srvList, f, t)
           page == PageResult(t - f + 1, resp.list)
       IN  lst' = [lst EXCEPT ![c] =
                     IF resp.kind # "ok"
                     THEN [@ EXCEPT !.pc = "done", !.ret = RetErr("fetch")]
                     ELSE IF page.kind = "panic"
                     THEN [@ EXCEPT !.pc = "done", !.ret = RetPanic]
                     ELSE [@ EXCEPT !.list = Accumulate(@, page.list),
                                    !.from = NextFrom(f, page.list),
                                    !.served = @ \o resp.list]]
    /\ UNCHANGED <<nvol, srvList>>
    /\ UNCHANGED nonListVars

\* Lines 209 (loop exit) and 217-220; the deferred DELETE changes nothing in
\* the mock (lines 745-747).
ListFinish(c) ==
    /\ lst[c].pc = "loop"
    /\ ~(lst[c].from <= lst[c].iter.Count)
    /\ lst' = [lst EXCEPT ![c] =
                 [@ EXCEPT !.pc = "done",
                           !.ret = FinalCheck(lst[c].iter, lst[c].list)]]
    /\ UNCHANGED <<nvol, srvList>>
    /\ UNCHANGED nonListVars

NextList ==
    \E c \in Listings :
        \/ ListOpen(c)
        \/ ListPage(c)
        \/ ListFinish(c)

SpecList == InitList /\ [][NextList]_vars

\* C13: with two listings of different filters under way, their requests
\* interleaved in any order, no page served to one holds an element of the
\* other's result set, and a drain that is over has returned exactly the
\* result set of its own listing.
C13_IteratorIndependence ==
    \A c \in Listings :
        /\ Elems(lst[c].served) \cap ResultSet(3 - c) = {}
        /\ lst[c].pc = "done" =>
             /\ lst[c].ret.kind = "list"
             /\ Elems(lst[c].ret.list) = ResultSet(c)
             /\ Len(lst[c].ret.list) = nvol[c]

\* --------------------------------------------------- the allowed arrays
Arrays == 1..MaxArrays

\* IsAllowedArray: no error when the list is empty or holds the array.
IsAllowedArray(al, a) == al = {} \/ a \in al

Req(m, a) == [method |-> m, sym |-> a]

\* if _, err := c.IsAllowedArray(symID); err != nil { return ..., err }
Refused == [reqs |-> <<>>, err |-> "notallowed"]

\* The requests issued and the error of the last one.
Did(rs, ok) == [reqs |-> rs, err |-> IF ok THEN "none" ELSE "rest"]

\* GetVolumeByID, lines 224-250.
GetVolumeByID(al, a, ok) ==
    IF ~IsAllowedArray(al, a) THEN Refused ELSE Did(<<Req("GET", a)>>, ok)

\* DeleteVolume, lines 908-929.
DeleteVolume(al, a, ok) ==
    IF ~IsAllowedArray(al, a) THEN Refused ELSE Did(<<Req("DELETE", a)>>, ok)

\* getVolumeIDsIteratorBase, lines 91-116.
getVolumeIDsIteratorBase(a, ok) == Did(<<Req("GET", a)>>, ok)

\* GetVolumeIDsIterator, lines 63-77.
GetVolumeIDsIterator(al, a, ok) ==
    IF ~IsAllowedArray(al, a) THEN Refused ELSE getVolumeIDsIteratorBase(a, ok)

\* GetVolumesInStorageGroupIterator, lines 80-89.
GetVolumesInStorageGroupIterator(a, sg, ok) ==
    IF sg = "" THEN [reqs |-> <<>>, err |-> "empty"]
    ELSE getVolumeIDsIteratorBase(a, ok)

\* GetVolumeIDList, lines 174-184; the requests of the drain that follows
\* address the iterator and carry no symID.
GetVolumeIDList(al, a, ok) ==
    IF ~IsAllowedArray(al, a) THEN Refused ELSE GetVolumeIDsIterator(al, a, ok)

\* GetVolumeIDListInStorageGroup, lines 187-193.
GetVolumeIDListInStorageGroup(al, a, sg, ok) ==
    GetVolumesInStorageGroupIterator(a, sg, ok)

\* ExpandVolume, lines 582-611: the PUT, then GetVolumeByID when it succeeded.
ExpandVolume(al, a, ok, ok2) ==
    IF ~ok THEN Did(<<Req("PUT", a)>>, FALSE)
    ELSE LET g == GetVolumeByID(al, a, ok2)
         IN  [reqs |-> <<Req("PUT", a)>> \o g.reqs, err |-> g.err]

\* DeletePortGroup, lines 1389-1399.
DeletePortGroup(al, a, ok) == Did(<<Req("DELETE", a)>>, ok)

\* GetPortGroupByID, lines 994-1011.
GetPortGroupByID(al, a, ok) ==
    IF ~IsAllowedArray(al, a) THEN Refused ELSE Did(<<Req("GET", a)>>, ok)

\* UpdatePortGroup, lines 1406-1509: GetPortGroupByID, then a PUT for the
\* ports to add and a PUT for the ports to remove.
UpdatePortGroup(al, a, added, removed, ok, ok2) ==
    LET g == GetPortGroupByID(al, a, ok)
    IN  IF g.err # "none" THEN g
        ELSE IF added /\ ~ok2
        THEN Did(g.reqs \o <<Req("PUT", a)>>, FALSE)
        ELSE Did(g.reqs \o (IF added THEN <<Req("PUT", a)>> ELSE <<>>)
                        \o (IF removed THEN <<Req("PUT", a)>> ELSE <<>>),
                 ~removed \/ ok2)

InitGate ==
    /\ DrainIdle
    /\ JobIdle
    /\ ListIdle
    /\ PortIdle
    /\ VolIdle
    /\ HostIdle
    /\ UhiIdle
    /\ ArgIdle
    /\ IdentIdle
    /\ StoreIdle
    /\ allowed = {}
    /\ gop = "none"
    /\ gsym = 0
    /\ rest = <<>>
    /\ gerr = "none"

\* SetAllowedArrays stores the list for the calls that follow.
SetAllowedArrays ==
    /\ \E arrays \in SUBSET Arrays : allowed' = arrays
    /\ gop' = "none"
    /\ gsym' = 0
    /\ rest' = <<>>
    /\ gerr' = "none"
    /\ UNCHANGED nonGateVars

\* A call of GetVolumeByID with the list as it stands.
CallGetVolumeByID ==
    /\ \E a \in Arrays, ok \in BOOLEAN :
         /\ gop' = "GetVolumeByID"
         /\ gsym' = a
         /\ rest' = GetVolumeByID(allowed, a, ok).reqs
         /\ gerr' = GetVolumeByID(allowed, a, ok).err
    /\ UNCHANGED allowed
    /\ UNCHANGED nonGateVars

\* A call of DeleteVolume with the list as it stands.
CallDeleteVolume ==
    /\ \E a \in Arrays, ok \in BOOLEAN :
         /\ gop' = "DeleteVolume"
         /\ gsym' = a
         /\ rest' = DeleteVolume(allowed, a, ok).reqs
         /\ gerr' = DeleteVolume(allowed, a, ok).err
    /\ UNCHANGED allowed
    /\ UNCHANGED nonGateVars

\* A call of GetVolumeIDList with the list as it stands.
CallGetVolumeIDList ==
    /\ \E a \in Arrays, ok \in BOOLEAN :
         /\ gop' = "GetVolumeIDList"
         /\ gsym' = a
         /\ rest' = GetVolumeIDList(allowed, a, ok).reqs
         /\ gerr' = GetVolumeIDList(allowed, a, ok).err
    /\ UNCHANGED allowed
    /\ UNCHANGED nonGateVars

\* A call of GetVolumeIDListInStorageGroup with the list as it stands.
CallGetVolumeIDListInStorageGroup ==
    /\ \E a \in Arrays, sg \in {"", "sg"}, ok \in BOOLEAN :
         /\ gop' = "GetVolumeIDListInStorageGroup"
         /\ gsym' = a
         /\ rest' = GetVolumeIDListInStorageGroup(allowed, a, sg, ok).reqs
         /\ gerr' = GetVolumeIDListInStorageGroup(allowed, a, sg, ok).err
    /\ UNCHANGED allowed
    /\ UNCHANGED nonGateVars

\* A call of ExpandVolume with the list as it stands.
CallExpandVolume ==
    /\ \E a \in Arrays, ok \in BOOLEAN, ok2 \in BOOLEAN :
         /\ gop' = "ExpandVolume"
         /\ gsym' = a
         /\ rest' = ExpandVolume(allowed, a, ok, ok2).reqs
         /\ gerr' = ExpandVolume(allowed, a, ok, ok2).err
    /\ UNCHANGED allowed
    /\ UNCHANGED nonGateVars

\* A call of DeletePortGroup with the list as it stands.
CallDeletePortGroup ==
    /\ \E a \in Arrays, ok \in BOOLEAN :
         /\ gop' = "DeletePortGroup"
         /\ gsym' = a
         /\ rest' = DeletePortGroup(allowed, a, ok).reqs
         /\ gerr' = DeletePortGroup(allowed, a, ok).err
    /\ UNCHANGED allowed
    /\ UNCHANGED nonGateVars

\* A call of UpdatePortGroup with the list as it stands.
CallUpdatePortGroup ==
    /\ \E a \in Arrays, added \in BOOLEAN, removed \in BOOLEAN,
          ok \in BOOLEAN, ok2 \in BOOLEAN :
         /\ gop' = "UpdatePortGroup"
         /\ gsym' = a
         /\ rest' = UpdatePortGroup(allowed, a, added, removed, ok, ok2).reqs
         /\ gerr' = UpdatePortGroup(allowed, a, added, removed, ok, ok2).err
    /\ UNCHANGED allowed
    /\ UNCHANGED nonGateVars

NextGate ==
    \/ SetAllowedArrays
    \/ CallGetVolumeByID
    \/ CallDeleteVolume
    \/ CallGetVolumeIDList
    \/ CallGetVolumeIDListInStorageGroup
    \/ CallExpandVolume
    \/ CallDeletePortGroup
    \/ CallUpdatePortGroup

SpecGate == InitGate /\ [][NextGate]_vars

\* C20: with a non-empty list of allowed arrays set, no REST request of a
\* client operation called with a symID addresses an array for which
\* IsAllowedArray returns an error.
C20_AllowedArrayGating ==
    allowed # {} =>
        \A i \in 1..Len(rest) : IsAllowedArray(allowed, rest[i].sym)

\* ------------------------------------------------------- UpdatePortGroup
\* A port key as the mock stores it or a caller passes it: port p written
\* either in the form the client normalises to (director in upper case, the
\* bare port number: "FA-1D", "5") or in another form of the same port
\* (director in lower case, or the PortID "FA-1D:5" that AddPortGroup of the
\* mock stores, lines 1419-1422).
PortKeys == (1..MaxPortKeys) \X {"norm", "other"}

\* Lines 1413-1415 and 1435-1443: ToUpper, ToLower and the port number taken
\* out of "director:port".
NormKey(k) == <<k[1], "norm">>

InducedPort ==
    {[GetPortGroupError |-> g, UpdatePortGroupError |-> u] :
        g \in BOOLEAN, u \in BOOLEAN}

\* Every order a Go map iteration may list the keys of S in.
Orderings(S) ==
    {s \in [1..Cardinality(S) -> S] : \A i, j \in 1..Cardinality(S) :
                                          s[i] = s[j] => i = j}

\* removePortKey, lines 1366-1384: the first entry equal to the key goes.
removePortKey(slice, keyToRemove) ==
    IF \E i \in 1..Len(slice) : slice[i] = keyToRemove
    THEN LET index == CHOOSE i \in 1..Len(slice) :
                          /\ slice[i] = keyToRemove
                          /\ \A j \in 1..(i - 1) : slice[j] # keyToRemove
         IN  SubSeq(slice, 1, index - 1) \o SubSeq(slice, index + 1, Len(slice))
    ELSE slice

\* updatePortGroup, lines 1337-1343: the keys to add are appended, then each
\* key to remove is taken out.
RECURSIVE removeKeys(_, _)
removeKeys(slice, keys) ==
    IF keys = <<>> THEN slice
    ELSE removeKeys(removePortKey(slice, keys[1]), SubSeq(keys, 2, Len(keys)))

updatePortGroup(slice, addKeys, rmKeys) == removeKeys(slice \o addKeys, rmKeys)

InitPort ==
    /\ DrainIdle
    /\ JobIdle
    /\ ListIdle
    /\ GateIdle
    /\ VolIdle
    /\ HostIdle
    /\ UhiIdle
    /\ ArgIdle
    /\ IdentIdle
    /\ StoreIdle
    /\ \E n \in 0..MaxPortList : pgList \in [1..n -> PortKeys]
    /\ inPorts = {}
    /\ pgPorts = {}
    /\ pgAdded = {}
    /\ pgRemoved = {}
    /\ pgInduced \in InducedPort
    /\ ppc = "idle"
    /\ puts = <<>>
    /\ pgRet = "none"

\* Lines 1406-1422: the call and the map of the ports asked for.
UPGStart ==
    /\ ppc = "idle"
    /\ \E ports \in SUBSET PortKeys : inPorts' = {NormKey(k) : k \in ports}
    /\ ppc' = "get"
    /\ UNCHANGED <<pgList, pgPorts, pgAdded, pgRemoved, pgInduced, puts, pgRet>>
    /\ UNCHANGED nonPortVars

\* Lines 1424-1465: GetPortGroupByID, answered by handlePortGroup (lines
\* 1663-1668 of the mock), and the two differences.
UPGGet ==
    /\ ppc = "get"
    /\ IF pgInduced.GetPortGroupError
       THEN /\ pgRet' = "err"
            /\ ppc' = "done"
            /\ UNCHANGED <<pgPorts, pgAdded, pgRemoved>>
       ELSE LET found == {NormKey(pgList[i]) : i \in 1..Len(pgList)}
            IN  /\ pgPorts' = found
                /\ pgAdded' = inPorts \ found
                /\ pgRemoved' = found \ inPorts
                /\ ppc' = "add"
                /\ pgRet' = pgRet
    /\ UNCHANGED <<pgList, inPorts, pgInduced, puts>>
    /\ UNCHANGED nonPortVars

\* Lines 1470-1485: the PUT that adds, answered by handlePortGroup (lines
\* 1684-1697 of the mock).
UPGAdd ==
    /\ ppc = "add"
    /\ IF pgAdded = {}
       THEN /\ ppc' = "remove"
            /\ UNCHANGED <<pgList, puts, pgRet>>
       ELSE /\ puts' = Append(puts, [kind |-> "add", ports |-> pgAdded])
            /\ IF pgInduced.UpdatePortGroupError
               THEN /\ pgRet' = "err"
                    /\ ppc' = "done"
                    /\ pgList' = pgList
               ELSE /\ \E o \in Orderings(pgAdded) :
                         pgList' = updatePortGroup(pgList, o, <<>>)
                    /\ ppc' = "remove"
                    /\ pgRet' = pgRet
    /\ UNCHANGED <<inPorts, pgPorts, pgAdded, pgRemoved, pgInduced>>
    /\ UNCHANGED nonPortVars

\* Lines 1487-1504: the PUT that removes, and the return.
UPGRemove ==
    /\ ppc = "remove"
    /\ IF pgRemoved = {}
       THEN /\ pgRet' = "ok"
            /\ UNCHANGED <<pgList, puts>>
       ELSE /\ puts' = Append(puts, [kind |-> "remove", ports |-> pgRemoved])
            /\ IF pgInduced.UpdatePortGroupError
               THEN /\ pgRet' = "err"
                    /\ pgList' = pgList
               ELSE /\ \E o \in Orderings(pgRemoved) :
                         pgList' = updatePortGroup(pgList, <<>>, o)
                    /\ pgRet' = "ok"
    /\ ppc' = "done"
    /\ UNCHANGED <<inPorts, pgPorts, pgAdded, pgRemoved, pgInduced>>
    /\ UNCHANGED nonPortVars

NextPort ==
    \/ UPGStart
    \/ UPGGet
    \/ UPGAdd
    \/ UPGRemove

SpecPort == InitPort /\ [][NextPort]_vars

ExpectedPuts ==
    (IF pgAdded # {} THEN <<[kind |-> "add", ports |-> pgAdded]>> ELSE <<>>)
        \o (IF pgRemoved # {} THEN <<[kind |-> "remove", ports |-> pgRemoved]>>
            ELSE <<>>)

\* C21: with P the ports found in the port group and R the ports asked for,
\* both as normalised keys, the PUTs of UpdatePortGroup are the one adding
\* R \ P if that is not empty and then the one removing P \ R if that is not
\* empty, none when R = P; and when the call returns without error the
\* ports of the port group are R.
C21_UpdatePortGroupReachesR ==
    /\ ppc \in {"add", "remove"} =>
         (pgAdded = inPorts \ pgPorts /\ pgRemoved = pgPorts \ inPorts)
    /\ Len(puts) <= Len(ExpectedPuts)
    /\ puts = SubSeq(ExpectedPuts, 1, Len(puts))
    /\ (ppc = "done" /\ pgRet = "ok") =>
         /\ puts = ExpectedPuts
         /\ {NormKey(pgList[i]) : i \in 1..Len(pgList)} = inPorts

\* ---------------------------------------------------------- DeleteVolume
VolumeIDs == 1..MaxVols

\* An ID with no entry in Data.VolumeIDToVolume, and an entry set to nil by
\* deleteVolume (line 571); any other value is NumberOfStorageGroups.
VolAbsent == 0 - 2

VolNil == 0 - 1

InducedVol ==
    {[DeleteVolumeError |-> d, DeviceInSGError |-> g] :
        d \in BOOLEAN, g \in BOOLEAN}

InitVol ==
    /\ DrainIdle
    /\ JobIdle
    /\ ListIdle
    /\ GateIdle
    /\ PortIdle
    /\ HostIdle
    /\ UhiIdle
    /\ ArgIdle
    /\ IdentIdle
    /\ StoreIdle
    /\ mvol \in [VolumeIDs -> {VolAbsent} \cup (0..MaxSGs)]
    /\ dvInduced \in InducedVol
    /\ dvpc = "idle"
    /\ dvVol = 0
    /\ dvRet = "none"

\* AddOneVolumeToStorageGroup of the mock, lines 1511-1551, for a volume
\* that exists.
AddOneVolumeToStorageGroup ==
    /\ \E v \in VolumeIDs :
         /\ mvol[v] \in 0..(MaxSGs - 1)
         /\ mvol' = [mvol EXCEPT ![v] = @ + 1]
    /\ UNCHANGED <<dvInduced, dvpc, dvVol, dvRet>>
    /\ UNCHANGED nonVolVars

\* removeOneVolumeFromStorageGroup of the mock, lines 1600-1632.
removeOneVolumeFromStorageGroup ==
    /\ \E v \in VolumeIDs :
         /\ mvol[v] \in 1..MaxSGs
         /\ mvol' = [mvol EXCEPT ![v] = @ - 1]
    /\ UNCHANGED <<dvInduced, dvpc, dvVol, dvRet>>
    /\ UNCHANGED nonVolVars

\* deleteVolume of the mock, lines 565-576: the error and the volumes after.
\* An entry left nil by an earlier delete is dereferenced at line 568: the
\* handler panics and the request fails.
deleteVolume(vols, volID) ==
    CASE vols[volID] = VolAbsent -> [err |-> TRUE, vols |-> vols]
      [] vols[volID] = VolNil    -> [err |-> TRUE, vols |-> vols]
      [] vols[volID] > 0        -> [err |-> TRUE, vols |-> vols]
      [] OTHER -> [err |-> FALSE, vols |-> [vols EXCEPT ![volID] = VolNil]]

\* DeleteVolume, lines 908-921: the allowed-array check and the DELETE.
DVCall ==
    /\ dvpc = "idle"
    /\ \E v \in VolumeIDs : dvVol' = v
    /\ IF IsAllowedArray(allowed, 1)
       THEN dvpc' = "sent" /\ dvRet' = "none"
       ELSE dvpc' = "idle" /\ dvRet' = "err"
    /\ UNCHANGED <<mvol, dvInduced>>
    /\ UNCHANGED nonVolVars

\* handleVolume of the mock, DELETE (lines 552-562), and the return of
\* DeleteVolume (lines 922-928). handleVolume drops what deleteVolume
\* returns: the answer is 200 unless an error is induced or the handler
\* panics.
DVResponse ==
    /\ dvpc = "sent"
    /\ IF dvInduced.DeleteVolumeError \/ dvInduced.DeviceInSGError
       THEN /\ dvRet' = "err"
            /\ mvol' = mvol
       ELSE /\ mvol' = deleteVolume(mvol, dvVol).vols
            /\ dvRet' = IF mvol[dvVol] = VolNil THEN "err" ELSE "ok"
    /\ dvpc' = "idle"
    /\ UNCHANGED <<dvInduced, dvVol>>
    /\ UNCHANGED nonVolVars

NextVol ==
    \/ AddOneVolumeToStorageGroup
    \/ removeOneVolumeFromStorageGroup
    \/ DVCall
    \/ DVResponse

SpecVol == InitVol /\ [][NextVol]_vars

\* C22: DeleteVolume on a volume that is a member of at least one storage
\* group returns an error and leaves the volume and its storage group
\* memberships unchanged.
C22_VolumeInSGNotDeleted ==
    [][(dvpc = "sent" /\ dvpc' = "idle" /\ mvol[dvVol] \in 1..MaxSGs)
         => (dvRet' = "err" /\ mvol' = mvol)]_vars

\* ------------------------------------------------------------ CreateHost
HostIDs == 1..MaxHosts

InitiatorIDs == 1..MaxInitiators

\* Initiator.HostID == "" and an initiator ID with no entry in
\* Data.InitiatorIDToInitiator.
NoHost == 0

NoInitiator == 0 - 1

\* The initiator lists a caller passes: no initiator twice.
InitiatorLists ==
    {l \in UNION {[1..n -> InitiatorIDs] : n \in 0..MaxInitiators} :
        \A i, j \in 1..Len(l) : l[i] = l[j] => i = j}

InitHost ==
    /\ DrainIdle
    /\ JobIdle
    /\ ListIdle
    /\ GateIdle
    /\ PortIdle
    /\ VolIdle
    /\ UhiIdle
    /\ ArgIdle
    /\ IdentIdle
    /\ StoreIdle
    /\ hostIDs = {}
    /\ hostInitiators = [h \in HostIDs |-> <<>>]
    /\ initOwner \in [InitiatorIDs -> {NoInitiator, NoHost}]
    /\ Debug \in BOOLEAN
    /\ callerDebug = Debug
    /\ chInduced \in BOOLEAN
    /\ chRet = "none"

\* AddHost, lines 1250-1264: the scan that sets validInitiators. The flag is
\* set when an initiator exists with no host, is never cleared, and the scan
\* stops at the first initiator seen while the flag is not set.
RECURSIVE validInitiators(_, _, _)
validInitiators(owner, initiatorIDs, valid) ==
    IF initiatorIDs = <<>> THEN valid
    ELSE LET v == valid \/ owner[Head(initiatorIDs)] = NoHost
         IN  IF ~v THEN FALSE
             ELSE validInitiators(owner, Tail(initiatorIDs), v)

\* AddHost, lines 1246-1282: the hosts and initiators after, and whether the
\* host was made.
AddHost(ids, inits, owner, hostID, initiatorIDs) ==
    IF hostID \in ids \/ ~validInitiators(owner, initiatorIDs, FALSE)
    THEN [made |-> FALSE, ids |-> ids, inits |-> inits, owner |-> owner]
    ELSE [made  |-> TRUE,
          ids   |-> ids \cup {hostID},
          inits |-> [inits EXCEPT ![hostID] = initiatorIDs],
          owner |-> [i \in InitiatorIDs |->
                        IF owner[i] # NoInitiator /\ i \in Elems(initiatorIDs)
                        THEN hostID ELSE owner[i]]]

\* A test gives the package variable Debug a value (interface.go, line 20).
SetDebug ==
    /\ \E b \in BOOLEAN : Debug' = b /\ callerDebug' = b
    /\ UNCHANGED <<hostIDs, hostInitiators, initOwner, chInduced, chRet>>
    /\ UNCHANGED nonHostVars

\* AddHost of the mock called by a test.
MockAddHost ==
    /\ \E h \in HostIDs, l \in InitiatorLists :
         LET r == AddHost(hostIDs, hostInitiators, initOwner, h, l)
         IN  /\ hostIDs' = r.ids
             /\ hostInitiators' = r.inits
             /\ initOwner' = r.owner
    /\ UNCHANGED <<Debug, callerDebug, chInduced, chRet>>
    /\ UNCHANGED nonHostVars

\* CreateHost, lines 1110-1134, with the POST answered by handleHost of the
\* mock (lines 1858-1884): what AddHost returns is dropped, and returnHost
\* (lines 1902-1909) answers 404 when there is no such host.
CreateHost ==
    /\ \E h \in HostIDs, l \in InitiatorLists :
         IF ~IsAllowedArray(allowed, 1)
         THEN /\ chRet' = "err"
              /\ UNCHANGED <<hostIDs, hostInitiators, initOwner, Debug>>
         ELSE /\ Debug' = TRUE
              /\ IF chInduced
                 THEN /\ chRet' = "err"
                      /\ UNCHANGED <<hostIDs, hostInitiators, initOwner>>
                 ELSE LET r == AddHost(hostIDs, hostInitiators, initOwner, h, l)
                      IN  /\ hostIDs' = r.ids
                          /\ hostInitiators' = r.inits
                          /\ initOwner' = r.owner
                          /\ chRet' = IF h \in r.ids THEN "ok" ELSE "err"
    /\ UNCHANGED <<callerDebug, chInduced>>
    /\ UNCHANGED nonHostVars

NextHost ==
    \/ SetDebug
    \/ MockAddHost
    \/ CreateHost

SpecHost == InitHost /\ [][NextHost]_vars

\* C23: after any sequence of host creations no initiator is a member of
\* more than one host, and no host was created from a list holding an
\* initiator that does not exist or belonged to a host: every initiator of
\* a host exists and that host is its one owner.
C23_InitiatorExclusivity ==
    /\ \A i \in InitiatorIDs :
         Cardinality({h \in hostIDs : i \in Elems(hostInitiators[h])}) <= 1
    /\ \A h \in hostIDs : \A i \in Elems(hostInitiators[h]) : initOwner[i] = h

\* C24: the client keeps no mutable state of its own outside the Client: the
\* package variable Debug holds the value its caller gave it.
C24_DebugKeepsCallerValue == Debug = callerDebug

\* -------------------------------------------------- UpdateHostInitiators
\* stringInSlice, lines 1231-1238.
stringInSlice(a, list) == \E i \in 1..Len(list) : list[i] = a

NotInSliceAll(list, other) == list

\* Lines 1151-1162: the entries of list, in order, that are not in other.
NotInSlice(list, other) ==
    SelectSeq(list, LAMBDA a : ~stringInSlice(a, other))

hasErrorSticky(flags) ==
    [ret |-> flags.UpdateHostError, flags |-> flags]

\* hasError, lines 149-162 of the mock, on UpdateHostError: what it returns
\* and the induced errors after.
hasError(flags) ==
    IF flags.UpdateHostError
    THEN [ret   |-> TRUE,
          flags |-> IF flags.ResetAfterFirstError
                    THEN [UpdateHostError |-> FALSE,
                          ResetAfterFirstError |-> FALSE]
                    ELSE flags]
    ELSE [ret |-> FALSE, flags |-> flags]

InducedHost ==
    {[UpdateHostError |-> u, ResetAfterFirstError |-> r] :
        u \in BOOLEAN, r \in BOOLEAN}

InitUhi ==
    /\ DrainIdle
    /\ JobIdle
    /\ ListIdle
    /\ GateIdle
    /\ PortIdle
    /\ VolIdle
    /\ HostIdle
    /\ ArgIdle
    /\ IdentIdle
    /\ StoreIdle
    /\ uhCur = <<>>
    /\ uhReq = <<>>
    /\ initAdd = <<>>
    /\ initRemove = <<>>
    /\ uhpc = "idle"
    /\ uhPuts = <<>>
    /\ uhRet = "none"
    /\ uhExists \in BOOLEAN
    /\ hostInduced \in InducedHost
    /\ checks = <<>>

\* A test sets the induced errors of the mock before its calls.
SetInducedHost ==
    /\ uhpc = "idle"
    /\ \E f \in InducedHost : hostInduced' = f
    /\ UNCHANGED <<uhCur, uhReq, initAdd, initRemove, uhpc, uhPuts, uhRet,
                   uhExists, checks>>
    /\ UNCHANGED nonUhiVars

\* Lines 1138-1165: the call, its checks and the two lists.
UHIStart ==
    /\ uhpc \in {"idle", "done"}
    /\ Len(checks) + 2 <= MaxChecks
    /\ \E cur \in InitiatorLists, req \in InitiatorLists :
         /\ uhCur' = cur
         /\ uhReq' = req
         /\ initAdd' = NotInSlice(req, cur)
         /\ initRemove' = NotInSlice(cur, req)
    /\ uhPuts' = <<>>
    /\ IF IsAllowedArray(allowed, 1)
       THEN uhpc' = "add" /\ uhRet' = "none"
       ELSE uhpc' = "done" /\ uhRet' = "err"
    /\ UNCHANGED <<uhExists, hostInduced, checks>>
    /\ UNCHANGED nonUhiVars

\* Lines 1167-1182: the PUT that adds, answered by handleHost of the mock
\* (lines 1875-1888): hasError, then returnHost, 404 without the host.
UHIAdd ==
    /\ uhpc = "add"
    /\ IF initAdd = <<>>
       THEN /\ uhpc' = "remove"
            /\ UNCHANGED <<uhPuts, uhRet, hostInduced, checks>>
       ELSE LET h == hasError(hostInduced)
                failed == h.ret \/ ~uhExists
            IN  /\ hostInduced' = h.flags
                /\ checks' = Append(checks, h.ret)
                /\ uhPuts' = Append(uhPuts, [kind |-> "add",
                                             initiators |-> initAdd,
                                             failed |-> failed])
                /\ IF failed
                   THEN uhpc' = "done" /\ uhRet' = "err"
                   ELSE uhpc' = "remove" /\ uhRet' = uhRet
    /\ UNCHANGED <<uhCur, uhReq, initAdd, initRemove, uhExists>>
    /\ UNCHANGED nonUhiVars

\* Lines 1183-1199: the PUT that removes, and the return.
UHIRemove ==
    /\ uhpc = "remove"
    /\ IF initRemove = <<>>
       THEN /\ uhRet' = "ok"
            /\ UNCHANGED <<uhPuts, hostInduced, checks>>
       ELSE LET h == hasError(hostInduced)
                failed == h.ret \/ ~uhExists
            IN  /\ hostInduced' = h.flags
                /\ checks' = Append(checks, h.ret)
                /\ uhPuts' = Append(uhPuts, [kind |-> "remove",
                                             initiators |-> initRemove,
                                             failed |-> failed])
                /\ uhRet' = IF failed THEN "err" ELSE "ok"
    /\ uhpc' = "done"
    /\ UNCHANGED <<uhCur, uhReq, initAdd, initRemove, uhExists>>
    /\ UNCHANGED nonUhiVars

NextUhi ==
    \/ SetInducedHost
    \/ UHIStart
    \/ UHIAdd
    \/ UHIRemove

SpecUhi == InitUhi /\ [][NextUhi]_vars

\* C25: with an induced error flag and ResetAfterFirstError both set,
\* hasError answers true and clears both; with only the flag set it answers
\* true and changes nothing; with the flag clear, as after the one-shot
\* reset, it answers false and changes nothing.
C25_OneShotInducedErrors ==
    [][Len(checks') = Len(checks) + 1 =>
         LET answer == checks'[Len(checks')]
         IN  /\ answer = hostInduced.UpdateHostError
             /\ (hostInduced.UpdateHostError
                    /\ hostInduced.ResetAfterFirstError) =>
                   (~hostInduced'.UpdateHostError
                      /\ ~hostInduced'.ResetAfterFirstError)
             /\ ~(hostInduced.UpdateHostError
                    /\ hostInduced.ResetAfterFirstError) =>
                   hostInduced' = hostInduced]_vars

\* The one-shot case: both were set, the first check answered true, the
\* next one false, and both are clear.
C25_Witness ==
    /\ Len(checks) >= 2
    /\ checks[1]
    /\ ~checks[2]
    /\ ~hostInduced.UpdateHostError
    /\ ~hostInduced.ResetAfterFirstError
    /\ Len(uhPuts) = 2

PutOf(q) == [kind |-> q.kind, initiators |-> Elems(q.initiators)]

ExpectedHostPuts ==
    LET toAdd == Elems(uhReq) \ Elems(uhCur)
        toRemove == Elems(uhCur) \ Elems(uhReq)
    IN  (IF toAdd # {} THEN <<[kind |-> "add", initiators |-> toAdd]>>
         ELSE <<>>)
          \o (IF toRemove # {}
              THEN <<[kind |-> "remove", initiators |-> toRemove]>>
              ELSE <<>>)

\* C29: with C the initiators of the host and R the initiators asked for,
\* the PUTs of UpdateHostInitiators are the one adding R \ C if that is not
\* empty and then the one removing C \ R if that is not empty; the two sets
\* are disjoint; no PUT follows one that failed; none is issued when R and
\* C hold the same initiators; a call that returns without error issued
\* them all.
C29_UpdateHostInitiatorsDiff ==
    /\ Len(uhPuts) <= Len(ExpectedHostPuts)
    /\ \A i \in 1..Len(uhPuts) : PutOf(uhPuts[i]) = ExpectedHostPuts[i]
    /\ \A i \in 1..Len(uhPuts) : uhPuts[i].failed => i = Len(uhPuts)
    /\ \A i, j \in 1..Len(uhPuts) :
         i # j => Elems(uhPuts[i].initiators)
                    \cap Elems(uhPuts[j].initiators) = {}
    /\ Elems(uhReq) = Elems(uhCur) => uhPuts = <<>>
    /\ (uhpc = "done" /\ uhRet = "ok") =>
         Len(uhPuts) = Len(ExpectedHostPuts)
    /\ (uhpc = "done" /\ uhRet = "err" /\ IsAllowedArray(allowed, 1)) =>
         (uhPuts # <<>> /\ uhPuts[Len(uhPuts)].failed)

\* Both PUTs were issued, the add first, and the call returned the host.
C29_Witness ==
    /\ uhpc = "done"
    /\ uhRet = "ok"
    /\ Len(uhPuts) = 2
    /\ uhPuts[1].kind = "add"
    /\ uhPuts[2].kind = "remove"

\* The add failed with something to remove, and the call returned.
C29_WitnessAddFailed ==
    /\ uhpc = "done"
    /\ initRemove # <<>>
    /\ Len(uhPuts) = 1
    /\ uhPuts[1].kind = "add"

\* ------------------------------------------------------ drain termination
CeilDiv(a, b) == (a + b - 1) \div b

\* C26: one drain issues at most ceil((count - firstPage.to) / maxPageSize)
\* page requests: every page that came back moved from forward by at least
\* one element, and the walk is over once from is past count.
C26_DrainTermination ==
    /\ Len(Gets) <= CeilDiv(iter.Count - iter.To, iter.MaxPageSize)
    /\ pc \in {"loop", "await"} => from >= iter.To + 1 + Len(pages)
    /\ (pc = "done" /\ ret.err # "fetch" /\ ret.kind # "panic") =>
         from > iter.Count

\* A drain of several pages, the last one short, that used every request
\* the bound allows.
C26_Witness ==
    /\ pc = "done"
    /\ ret.kind = "list"
    /\ Len(Gets) = 3
    /\ Len(Gets) = CeilDiv(iter.Count - iter.To, iter.MaxPageSize)
    /\ (iter.Count - iter.To) % iter.MaxPageSize # 0

\* ---------------------------------------------------- argument validation
\* The lengths of a volume name: short, the longest allowed, one more.
NameLengths == {1, MaxVolIdentifierLength, MaxVolIdentifierLength + 1}

\* A call gives the arguments its operation reads; the others are left out
\* of the choice: one volume ID, a short name, a storage group, a host.
Args(a, n, l, sg, nh) ==
    [sym |-> a, nvols |-> n, nameLen |-> l, sg |-> sg, nilHost |-> nh]

VolumeArgs == {Args(a, n, 1, "sg", FALSE) : a \in Arrays, n \in 0..MaxVolArgs}

NameArgs == {Args(a, 1, l, "sg", FALSE) : a \in Arrays, l \in NameLengths}

GroupArgs == {Args(a, 1, 1, sg, FALSE) : a \in Arrays, sg \in {"", "sg"}}

HostArgs == {Args(a, 1, 1, "sg", nh) : a \in Arrays, nh \in BOOLEAN}

\* return ..., fmt.Errorf(...) before any request.
Rejected(why) == [reqs |-> <<>>, err |-> why]

\* The requests of two calls in a row; the second is made only if the first
\* returned no error.
Then(r1, r2) ==
    IF r1.err # "none" THEN r1
    ELSE [reqs |-> r1.reqs \o r2.reqs, err |-> r2.err]

TooLongNever(nameLen) == FALSE

\* Lines 486 and 544: len(volumeName) > MaxVolIdentifierLength.
TooLong(nameLen) == nameLen > MaxVolIdentifierLength

\* UpdateStorageGroup, lines 421-441, and UpdateStorageGroupS, lines 444-462.
UpdateStorageGroup(al, a, ok) ==
    IF ~IsAllowedArray(al, a) THEN Refused ELSE Did(<<Req("PUT", a)>>, ok)

UpdateStorageGroupS(al, a, ok) ==
    IF ~IsAllowedArray(al, a) THEN Refused ELSE Did(<<Req("PUT", a)>>, ok)

\* WaitOnJobCompletion: the allowed-array check and the polls of the job,
\* one GET here.
WaitOnJobCompletion(al, a, ok) ==
    IF ~IsAllowedArray(al, a) THEN Refused ELSE Did(<<Req("GET", a)>>, ok)

\* GetVolumeByIdentifier, lines 511-535: the listing of the IDs, here one GET.
GetVolumeByIdentifier(al, a, ok) ==
    Then(GetVolumeIDList(al, a, ok), Did(<<>>, TRUE))

\* AddVolumesToStorageGroup, lines 614-638.
AddVolumesToStorageGroup(al, g, ok, ok2) ==
    IF ~IsAllowedArray(al, g.sym) THEN Refused
    ELSE IF g.nvols = 0 THEN Rejected("novolumes")
    ELSE Then(UpdateStorageGroup(al, g.sym, ok),
              WaitOnJobCompletion(al, g.sym, ok2))

\* AddVolumesToStorageGroupS, lines 641-656.
AddVolumesToStorageGroupS(al, g, ok) ==
    IF ~IsAllowedArray(al, g.sym) THEN Refused
    ELSE IF g.nvols = 0 THEN Rejected("novolumes")
    ELSE UpdateStorageGroupS(al, g.sym, ok)

\* RemoveVolumesFromStorageGroup, lines 677-703.
RemoveVolumesFromStorageGroup(al, g, ok) ==
    IF ~IsAllowedArray(al, g.sym) THEN Refused
    ELSE IF g.nvols = 0 THEN Rejected("novolumes")
    ELSE Did(<<Req("PUT", g.sym)>>, ok)

\* CreateVolumeInStorageGroup, lines 479-508.
CreateVolumeInStorageGroup(al, g, ok, ok2, ok3) ==
    IF ~IsAllowedArray(al, g.sym) THEN Refused
    ELSE IF TooLong(g.nameLen) THEN Rejected("name")
    ELSE Then(Then(UpdateStorageGroup(al, g.sym, ok),
                   WaitOnJobCompletion(al, g.sym, ok2)),
              GetVolumeByIdentifier(al, g.sym, ok3))

\* CreateVolumeInStorageGroupS, lines 538-558.
CreateVolumeInStorageGroupS(al, g, ok, ok2) ==
    IF ~IsAllowedArray(al, g.sym) THEN Refused
    ELSE IF TooLong(g.nameLen) THEN Rejected("name")
    ELSE Then(UpdateStorageGroupS(al, g.sym, ok),
              GetVolumeByIdentifier(al, g.sym, ok2))

\* UpdateHostInitiators, lines 1138-1199, with toAdd and toRem telling
\* whether there is something to add and to remove.
UpdateHostInitiators(al, g, toAdd, toRem, ok, ok2) ==
    IF ~IsAllowedArray(al, g.sym) THEN Refused
    ELSE IF g.nilHost THEN Rejected("nilhost")
    ELSE Then(IF toAdd THEN Did(<<Req("PUT", g.sym)>>, ok) ELSE Did(<<>>, TRUE),
              IF toRem THEN Did(<<Req("PUT", g.sym)>>, ok2) ELSE Did(<<>>, TRUE))

InitArg ==
    /\ DrainIdle
    /\ JobIdle
    /\ ListIdle
    /\ PortIdle
    /\ VolIdle
    /\ HostIdle
    /\ UhiIdle
    /\ IdentIdle
    /\ StoreIdle
    /\ allowed \in SUBSET Arrays
    /\ gop = "none"
    /\ gsym = 0
    /\ rest = <<>>
    /\ gerr = "none"
    /\ vop = "none"
    /\ varg = <<>>
    /\ vreqs = <<>>
    /\ verr = "none"

CallAddVolumesToStorageGroup ==
    /\ \E g \in VolumeArgs, ok \in BOOLEAN, ok2 \in BOOLEAN :
         /\ vop' = "AddVolumesToStorageGroup"
         /\ varg' = g
         /\ vreqs' = AddVolumesToStorageGroup(allowed, g, ok, ok2).reqs
         /\ verr' = AddVolumesToStorageGroup(allowed, g, ok, ok2).err
    /\ UNCHANGED nonArgVars

CallAddVolumesToStorageGroupS ==
    /\ \E g \in VolumeArgs, ok \in BOOLEAN :
         /\ vop' = "AddVolumesToStorageGroupS"
         /\ varg' = g
         /\ vreqs' = AddVolumesToStorageGroupS(allowed, g, ok).reqs
         /\ verr' = AddVolumesToStorageGroupS(allowed, g, ok).err
    /\ UNCHANGED nonArgVars

CallRemoveVolumesFromStorageGroup ==
    /\ \E g \in VolumeArgs, ok \in BOOLEAN :
         /\ vop' = "RemoveVolumesFromStorageGroup"
         /\ varg' = g
         /\ vreqs' = RemoveVolumesFromStorageGroup(allowed, g, ok).reqs
         /\ verr' = RemoveVolumesFromStorageGroup(allowed, g, ok).err
    /\ UNCHANGED nonArgVars

CallCreateVolumeInStorageGroup ==
    /\ \E g \in NameArgs, ok \in BOOLEAN, ok2 \in BOOLEAN, ok3 \in BOOLEAN :
         /\ vop' = "CreateVolumeInStorageGroup"
         /\ varg' = g
         /\ vreqs' = CreateVolumeInStorageGroup(allowed, g, ok, ok2, ok3).reqs
         /\ verr' = CreateVolumeInStorageGroup(allowed, g, ok, ok2, ok3).err
    /\ UNCHANGED nonArgVars

CallCreateVolumeInStorageGroupS ==
    /\ \E g \in NameArgs, ok \in BOOLEAN, ok2 \in BOOLEAN :
         /\ vop' = "CreateVolumeInStorageGroupS"
         /\ varg' = g
         /\ vreqs' = CreateVolumeInStorageGroupS(allowed, g, ok, ok2).reqs
         /\ verr' = CreateVolumeInStorageGroupS(allowed, g, ok, ok2).err
    /\ UNCHANGED nonArgVars

CallGetVolumesInStorageGroupIterator ==
    /\ \E g \in GroupArgs, ok \in BOOLEAN :
         /\ vop' = "GetVolumesInStorageGroupIterator"
         /\ varg' = g
         /\ vreqs' = GetVolumesInStorageGroupIterator(g.sym, g.sg, ok).reqs
         /\ verr' = GetVolumesInStorageGroupIterator(g.sym, g.sg, ok).err
    /\ UNCHANGED nonArgVars

CallUpdateHostInitiators ==
    /\ \E g \in HostArgs, toAdd \in BOOLEAN, toRem \in BOOLEAN,
          ok \in BOOLEAN, ok2 \in BOOLEAN :
         /\ vop' = "UpdateHostInitiators"
         /\ varg' = g
         /\ vreqs' = UpdateHostInitiators(allowed, g, toAdd, toRem, ok, ok2).reqs
         /\ verr' = UpdateHostInitiators(allowed, g, toAdd, toRem, ok, ok2).err
    /\ UNCHANGED nonArgVars

NextArg ==
    \/ CallAddVolumesToStorageGroup
    \/ CallAddVolumesToStorageGroupS
    \/ CallRemoveVolumesFromStorageGroup
    \/ CallCreateVolumeInStorageGroup
    \/ CallCreateVolumeInStorageGroupS
    \/ CallGetVolumesInStorageGroupIterator
    \/ CallUpdateHostInitiators

SpecArg == InitArg /\ [][NextArg]_vars

\* The call was one the operation rejects for its arguments.
BadArguments ==
    \/ /\ vop \in {"AddVolumesToStorageGroup", "AddVolumesToStorageGroupS",
                   "RemoveVolumesFromStorageGroup"}
       /\ varg.nvols = 0
    \/ /\ vop \in {"CreateVolumeInStorageGroup", "CreateVolumeInStorageGroupS"}
       /\ varg.nameLen > MaxVolIdentifierLength
    \/ /\ vop = "GetVolumesInStorageGroupIterator"
       /\ varg.sg = ""
    \/ /\ vop = "UpdateHostInitiators"
       /\ varg.nilHost

\* C27: a call rejected for its arguments issues no REST request and returns
\* an error: AddVolumesToStorageGroup, AddVolumesToStorageGroupS and
\* RemoveVolumesFromStorageGroup without volume IDs, CreateVolumeInStorageGroup
\* and CreateVolumeInStorageGroupS with a name of more than 64 characters,
\* GetVolumesInStorageGroupIterator with an empty storageGroupID and
\* UpdateHostInitiators with a nil host.
C27_ValidationPrecedesIO ==
    (vop # "none" /\ BadArguments) => (vreqs = <<>> /\ verr # "none")

\* A name one character too long for an array that is allowed: rejected for
\* the name, nothing sent.
C27_Witness ==
    /\ vop = "CreateVolumeInStorageGroup"
    /\ varg.nameLen = MaxVolIdentifierLength + 1
    /\ IsAllowedArray(allowed, varg.sym)
    /\ verr = "name"
    /\ vreqs = <<>>

\* ------------------------------------------- the steps of a create volume
CreateVolumeSteps ==
    <<[step |-> "put", option |-> "ASYNCHRONOUS"], WaitStep, LookupStep>>

\* C28: CreateVolumeInStorageGroup makes, in this order, the PUT with the
\* execution option ASYNCHRONOUS, the wait on the job it returned and the
\* lookup of the volume by its identifier; the wait is not started when the
\* PUT returned an error or no job, and the lookup is not made when the wait
\* returned an error or the job FAILED.
C28_CreateVolumeStepOrder ==
    op = "CreateVolume" =>
        /\ Len(steps) <= Len(CreateVolumeSteps)
        /\ steps = SubSeq(CreateVolumeSteps, 1, Len(steps))
        /\ opRet = OpErr("nojob") => steps = SubSeq(CreateVolumeSteps, 1, 1)
        /\ (wret.kind = "err" \/ wret.Status = "FAILED") =>
              (Len(steps) < 3 /\ cpc # "lookup")
        /\ (Len(steps) = 3 \/ cpc = "lookup") =>
              (wret.kind = "job" /\ wret.Status # "FAILED")
        /\ (cpc = "done" /\ opRet.kind \notin {"err", "none"}) => Len(steps) = 3

\* The three steps were made and the volume was returned.
C28_Witness ==
    /\ op = "CreateVolume"
    /\ cpc = "done"
    /\ steps = CreateVolumeSteps
    /\ opRet = OpOK("volume")
    /\ polls >= 1

\* The job failed and the operation returned after two steps.
C28_WitnessFailed ==
    /\ op = "CreateVolume"
    /\ cpc = "done"
    /\ wret.Status = "FAILED"
    /\ Len(steps) = 2

\* ------------------------------------------------- GetVolumeByIdentifier
IdentVolumes == 1..MaxIdentVols

StorageGroupIDs == {"sg", "other"}

Capacities == {1, 2}

\* return nil, fmt.Errorf(...).
NoVolume == 0

\* The lists GetVolumeIDList can return: volume IDs in any order, none twice.
IDLists ==
    {l \in UNION {[1..n -> IdentVolumes] : n \in 0..MaxIdentVols} :
        \A i, j \in 1..Len(l) : l[i] = l[j] => i = j}

MatchesAnySize(vol, storageGroupID, sizeInCylinders) ==
    storageGroupID \in vol.StorageGroupIDList

\* Lines 523-528: some entry of the volume's storage group list is the one
\* asked for and the capacity is the size asked for.
Matches(vol, storageGroupID, sizeInCylinders) ==
    \E sgID \in vol.StorageGroupIDList :
        sgID = storageGroupID /\ vol.CapacityCYL = sizeInCylinders

InitIdent ==
    /\ DrainIdle
    /\ JobIdle
    /\ ListIdle
    /\ GateIdle
    /\ PortIdle
    /\ VolIdle
    /\ HostIdle
    /\ UhiIdle
    /\ ArgIdle
    /\ StoreIdle
    /\ gvVols \in [IdentVolumes -> [StorageGroupIDList : SUBSET StorageGroupIDs,
                                    CapacityCYL : Capacities]]
    /\ gvArgs = <<>>
    /\ volIDList = <<>>
    /\ gvIdx = 0
    /\ gvGets = <<>>
    /\ gvpc = "idle"
    /\ gvRet = NoVolume

\* Lines 511-515: the call and GetVolumeIDList for the exact identifier,
\* which returns a list or an error.
GVIList ==
    /\ gvpc = "idle"
    /\ \E sg \in StorageGroupIDs, size \in Capacities :
         gvArgs' = [storageGroupID |-> sg, sizeInCylinders |-> size]
    /\ \/ /\ \E l \in IDLists : volIDList' = l
          /\ gvpc' = "loop"
       \/ /\ volIDList' = <<>>
          /\ gvpc' = "done"
    /\ gvIdx' = 1
    /\ gvGets' = <<>>
    /\ gvRet' = NoVolume
    /\ UNCHANGED gvVols
    /\ UNCHANGED nonIdentVars

\* Lines 519-530: one turn of the loop, GetVolumeByID and the test of the
\* volume it returned; a GET that fails is passed over.
GVIGet ==
    /\ gvpc = "loop"
    /\ gvIdx <= Len(volIDList)
    /\ \E ok \in BOOLEAN :
         LET volumeID == volIDList[gvIdx]
         IN  /\ gvGets' = Append(gvGets, [volumeID |-> volumeID, ok |-> ok])
             /\ IF ok /\ Matches(gvVols[volumeID], gvArgs.storageGroupID,
                                 gvArgs.sizeInCylinders)
                THEN /\ gvRet' = volumeID
                     /\ gvpc' = "done"
                     /\ gvIdx' = gvIdx
                ELSE /\ gvRet' = gvRet
                     /\ gvpc' = gvpc
                     /\ gvIdx' = gvIdx + 1
    /\ UNCHANGED <<gvVols, gvArgs, volIDList>>
    /\ UNCHANGED nonIdentVars

\* Lines 531-533: the list is used up, the error is returned.
GVINotFound ==
    /\ gvpc = "loop"
    /\ gvIdx > Len(volIDList)
    /\ gvRet' = NoVolume
    /\ gvpc' = "done"
    /\ UNCHANGED <<gvVols, gvArgs, volIDList, gvIdx, gvGets>>
    /\ UNCHANGED nonIdentVars

NextIdent ==
    \/ GVIList
    \/ GVIGet
    \/ GVINotFound

SpecIdent == InitIdent /\ [][NextIdent]_vars

\* The volume at position i of the list was fetched and is in the storage
\* group asked for with the size asked for.
Sound(i) ==
    /\ i <= Len(gvGets)
    /\ gvGets[i].ok
    /\ gvArgs.storageGroupID \in gvVols[volIDList[i]].StorageGroupIDList
    /\ gvVols[volIDList[i]].CapacityCYL = gvArgs.sizeInCylinders

\* C30: GetVolumeByIdentifier returns a volume only if it is in the ID list
\* obtained for the identifier, its storage group list holds the
\* storageGroupID asked for and its CapacityCYL is the size asked for, and it
\* is the first such volume of the list; when no listed volume is such a
\* one, every GET having failed included, it returns an error and no volume.
C30_GetVolumeByIdentifierSound ==
    /\ \A i \in 1..Len(gvGets) :
         i <= Len(volIDList) /\ gvGets[i].volumeID = volIDList[i]
    /\ gvpc = "done" =>
         IF \E i \in 1..Len(volIDList) : Sound(i)
         THEN /\ gvRet = volIDList[Len(gvGets)]
              /\ Sound(Len(gvGets))
              /\ \A j \in 1..(Len(gvGets) - 1) : ~Sound(j)
         ELSE /\ gvRet = NoVolume
              /\ Len(gvGets) = Len(volIDList)

\* The first volume of the list was passed over and the second returned.
C30_Witness ==
    /\ gvpc = "done"
    /\ Len(volIDList) = 2
    /\ gvRet = volIDList[2]
    /\ gvGets[1].ok
    /\ gvArgs.storageGroupID \in gvVols[volIDList[1]].StorageGroupIDList

\* Every GET failed and the error was returned.
C30_WitnessAllFailed ==
    /\ gvpc = "done"
    /\ Len(volIDList) = 2
    /\ Len(gvGets) = 2
    /\ ~gvGets[1].ok
    /\ ~gvGets[2].ok
    /\ gvRet = NoVolume

\* ======================================================= mock data store
\* The mock Unisphere keeps its objects in maps of the package variable Data
\* (Reset, lines 165-246): StorageGroupIDToStorageGroup,
\* StorageGroupIDToVolumes, VolumeIDToVolume and MaskingViewIDToMaskingView.
\* Storage group IDs, volume IDs and masking view IDs are all strings and are
\* drawn here from one domain, so that a storage group may carry the same ID as
\* a masking view.  The hosts and port groups a masking view names are left to
\* the input hostExists; Volume.NumberOfFrontEndPaths and the MaskingView list
\* of a storage group are derived fields no guard reads and are not kept.
StoreIDs == 1..MaxStoreIDs

StoreVolumeIDs == 1..MaxStoreVols

\* The counters are Go ints; the model stops an operation that would drive a
\* counter or a list beyond these limits.
StoreLow == 0 - MaxDebt

StoreHigh == MaxStoreIDs

\* The last masking view request: its name, the ID it was given and its
\* answer.
Answered(name, i, a) == stOp' = [op |-> name, id |-> i, answer |-> a]

\* Operations whose answer no property reads leave no record.
Other == Answered("other", 0, "none")

InitStore ==
    /\ DrainIdle
    /\ JobIdle
    /\ ListIdle
    /\ GateIdle
    /\ PortIdle
    /\ VolIdle
    /\ HostIdle
    /\ UhiIdle
    /\ ArgIdle
    /\ IdentIdle
    /\ stSGs = {}
    /\ stNumOfVolumes = [i \in StoreIDs |-> 0]
    /\ stNumOfMVs = [i \in StoreIDs |-> 0]
    /\ stSGVolumes = [i \in StoreIDs |-> <<>>]
    /\ stVols = {}
    /\ stSGList = [i \in StoreVolumeIDs |-> <<>>]
    /\ stNumberOfSGs = [i \in StoreVolumeIDs |-> 0]
    /\ stMVs = {}
    /\ stMVSG = [i \in StoreIDs |-> 0]
    /\ stOp = [op |-> "none", id |-> 0, answer |-> "none"]

\* Lines 948-957 with newStorageGroup (904-936): an existing ID is an error;
\* otherwise a storage group with both counters 0 and an empty volume list.
AddStorageGroup ==
    \E sg \in StoreIDs :
        /\ IF sg \in stSGs
           THEN /\ Other
                /\ UNCHANGED <<stSGs, stNumOfVolumes, stNumOfMVs, stSGVolumes>>
           ELSE /\ stSGs' = stSGs \cup {sg}
                /\ stNumOfVolumes' = [stNumOfVolumes EXCEPT ![sg] = 0]
                /\ stNumOfMVs' = [stNumOfMVs EXCEPT ![sg] = 0]
                /\ stSGVolumes' = [stSGVolumes EXCEPT ![sg] = <<>>]
                /\ Other
        /\ UNCHANGED <<stVols, stSGList, stNumberOfSGs, stMVs, stMVSG>>
        /\ UNCHANGED nonStoreVars

\* Lines 960-980: not found for an unknown ID, an error while the group has
\* masking views or volumes, else the entry is deleted from
\* StorageGroupIDToStorageGroup (StorageGroupIDToVolumes keeps its entry).
RemoveStorageGroup ==
    \E sg \in StoreIDs :
        /\ IF sg \notin stSGs
           THEN /\ Other
                /\ UNCHANGED <<stSGs, stNumOfVolumes, stNumOfMVs>>
           ELSE IF stNumOfMVs[sg] # 0 \/ Len(stSGVolumes[sg]) > 0
           THEN /\ Other
                /\ UNCHANGED <<stSGs, stNumOfVolumes, stNumOfMVs>>
           ELSE /\ stSGs' = stSGs \ {sg}
                /\ stNumOfVolumes' = [stNumOfVolumes EXCEPT ![sg] = 0]
                /\ stNumOfMVs' = [stNumOfMVs EXCEPT ![sg] = 0]
                /\ Other
        /\ UNCHANGED <<stSGVolumes, stVols, stSGList, stNumberOfSGs, stMVs,
                       stMVSG>>
        /\ UNCHANGED nonStoreVars

\* Lines 1146-1160 with newVolume (1120-1143): an existing volume or an
\* unknown storage group is an error; otherwise the volume is created with
\* StorageGroupIDList [sg] and NumberOfStorageGroups 1, the group's
\* NumOfVolumes is incremented and the volume appended to its list.
AddNewVolume ==
    \E v \in StoreVolumeIDs, sg \in StoreIDs :
        /\ IF v \in stVols \/ sg \notin stSGs
           THEN /\ Other
                /\ UNCHANGED <<stVols, stSGList, stNumberOfSGs, stNumOfVolumes,
                               stSGVolumes>>
           ELSE /\ stNumOfVolumes[sg] < StoreHigh
                /\ Len(stSGVolumes[sg]) < StoreHigh
                /\ stVols' = stVols \cup {v}
                /\ stSGList' = [stSGList EXCEPT ![v] = <<sg>>]
                /\ stNumberOfSGs' = [stNumberOfSGs EXCEPT ![v] = 1]
                /\ stNumOfVolumes' = [stNumOfVolumes EXCEPT ![sg] = @ + 1]
                /\ stSGVolumes' = [stSGVolumes EXCEPT ![sg] = Append(@, v)]
                /\ Other
        /\ UNCHANGED <<stSGs, stNumOfMVs, stMVs, stMVSG>>
        /\ UNCHANGED nonStoreVars

\* Lines 1511-1551: an unknown storage group is an error; a known volume
\* already in StorageGroupIDToVolumes[sg] is an error, else the group is
\* appended to its StorageGroupIDList and both counters are incremented; an
\* unknown volume is created by AddNewVolume.  (The membership test is
\* strings.Contains, which is equality on IDs of one length.)
AddOneVolumeToStorageGroupStore ==
    \E v \in StoreVolumeIDs, sg \in StoreIDs :
        /\ IF sg \notin stSGs
           THEN /\ Other
                /\ UNCHANGED <<stVols, stSGList, stNumberOfSGs, stNumOfVolumes,
                               stSGVolumes>>
           ELSE IF v \in stVols /\ v \in Elems(stSGVolumes[sg])
           THEN /\ Other
                /\ UNCHANGED <<stVols, stSGList, stNumberOfSGs, stNumOfVolumes,
                               stSGVolumes>>
           ELSE /\ stNumOfVolumes[sg] < StoreHigh
                /\ Len(stSGVolumes[sg]) < StoreHigh
                /\ stNumOfVolumes' = [stNumOfVolumes EXCEPT ![sg] = @ + 1]
                /\ stSGVolumes' = [stSGVolumes EXCEPT ![sg] = Append(@, v)]
                /\ IF v \in stVols
                   THEN /\ stNumberOfSGs[v] < StoreHigh
                        /\ Len(stSGList[v]) < StoreHigh
                        /\ stSGList' = [stSGList EXCEPT ![v] = Append(@, sg)]
                        /\ stNumberOfSGs' = [stNumberOfSGs EXCEPT ![v] = @ + 1]
                        /\ UNCHANGED stVols
                   ELSE /\ stVols' = stVols \cup {v}
                        /\ stSGList' = [stSGList EXCEPT ![v] = <<sg>>]
                        /\ stNumberOfSGs' = [stNumberOfSGs EXCEPT ![v] = 1]
                /\ Other
        /\ UNCHANGED <<stSGs, stNumOfMVs, stMVs, stMVSG>>
        /\ UNCHANGED nonStoreVars

\* Lines 1600-1641: an unknown storage group or volume is an error; otherwise
\* the group is filtered out of the volume's StorageGroupIDList and the volume
\* out of the group's list, and NumberOfStorageGroups (line 1622) and
\* NumOfVolumes (line 1632) are decremented whether or not anything was
\* filtered out.
removeOneVolumeFromStorageGroupStore ==
    \E v \in StoreVolumeIDs, sg \in StoreIDs :
        /\ IF sg \notin stSGs \/ v \notin stVols
           THEN /\ Other
                /\ UNCHANGED <<stSGList, stNumberOfSGs, stNumOfVolumes,
                               stSGVolumes>>
           ELSE /\ stNumberOfSGs[v] > StoreLow
                /\ stNumOfVolumes[sg] > StoreLow
                /\ stSGList' = [stSGList EXCEPT
                                   ![v] = SelectSeq(@, LAMBDA g : g # sg)]
                /\ stNumberOfSGs' = [stNumberOfSGs EXCEPT ![v] = @ - 1]
                /\ stSGVolumes' = [stSGVolumes EXCEPT
                                      ![sg] = SelectSeq(@, LAMBDA w : w # v)]
                /\ stNumOfVolumes' = [stNumOfVolumes EXCEPT ![sg] = @ - 1]
                /\ Other
        /\ UNCHANGED <<stSGs, stVols, stNumOfMVs, stMVs, stMVSG>>
        /\ UNCHANGED nonStoreVars

\* Lines 1001-1028 with newMaskingView (938-946): an existing masking view,
\* an unknown storage group or an unknown host is an error; otherwise the
\* view is stored and the group's NumOfMaskingViews incremented.
AddMaskingView ==
    \E mv \in StoreIDs, sg \in StoreIDs, hostExists \in BOOLEAN :
        /\ IF mv \in stMVs \/ sg \notin stSGs \/ ~hostExists
           THEN /\ Other
                /\ UNCHANGED <<stMVs, stMVSG, stNumOfMVs>>
           ELSE /\ stNumOfMVs[sg] < StoreHigh
                /\ stMVs' = stMVs \cup {mv}
                /\ stMVSG' = [stMVSG EXCEPT ![mv] = sg]
                /\ stNumOfMVs' = [stNumOfMVs EXCEPT ![sg] = @ + 1]
                /\ Other
        /\ UNCHANGED <<stSGs, stNumOfVolumes, stSGVolumes, stVols, stSGList,
                       stNumberOfSGs>>
        /\ UNCHANGED nonStoreVars

\* Lines 1031-1092: not found for an unknown ID.  Otherwise line 1040
\* decrements NumOfMaskingViews through the map entry of the view's storage
\* group, a nil pointer when that group is gone (the handler panics before it
\* changed anything), and line 1091 deletes the key maskingViewID from
\* StorageGroupIDToStorageGroup.  Nothing deletes the key from
\* MaskingViewIDToMaskingView.
RemoveMaskingView ==
    \E mv \in StoreIDs :
        /\ IF mv \notin stMVs
           THEN /\ Answered("RemoveMaskingView", mv, "notfound")
                /\ UNCHANGED <<stSGs, stNumOfVolumes, stNumOfMVs>>
           ELSE IF stMVSG[mv] \notin stSGs
           THEN /\ Answered("RemoveMaskingView", mv, "panic")
                /\ UNCHANGED <<stSGs, stNumOfVolumes, stNumOfMVs>>
           ELSE /\ stNumOfMVs[stMVSG[mv]] > StoreLow
                /\ stSGs' = stSGs \ {mv}
                /\ stNumOfMVs' =
                       [g \in StoreIDs |->
                           IF g = mv THEN 0
                           ELSE IF g = stMVSG[mv] THEN stNumOfMVs[g] - 1
                           ELSE stNumOfMVs[g]]
                /\ stNumOfVolumes' = [stNumOfVolumes EXCEPT ![mv] = 0]
                /\ Answered("RemoveMaskingView", mv,
                            IF mv \in stSGs THEN "ok-group-deleted" ELSE "ok")
        /\ UNCHANGED <<stSGVolumes, stVols, stSGList, stNumberOfSGs, stMVs,
                       stMVSG>>
        /\ UNCHANGED nonStoreVars

\* Lines 1471-1488 (GET of one masking view): not found for an unknown ID,
\* else the stored masking view.
returnMaskingView ==
    \E mv \in StoreIDs :
        /\ Answered("returnMaskingView", mv,
                    IF mv \in stMVs THEN "ok" ELSE "notfound")
        /\ UNCHANGED <<stSGs, stNumOfVolumes, stNumOfMVs, stSGVolumes, stVols,
                       stSGList, stNumberOfSGs, stMVs, stMVSG>>
        /\ UNCHANGED nonStoreVars

\* The volume membership operations alone, on storage groups made by
\* AddStorageGroup.
NextMembership ==
    \/ AddStorageGroup
    \/ AddNewVolume
    \/ AddOneVolumeToStorageGroupStore
    \/ removeOneVolumeFromStorageGroupStore

SpecMembership == InitStore /\ [][NextMembership]_vars

\* The storage group and masking view operations alone, with the GET of a
\* masking view.
NextIntegrity ==
    \/ AddStorageGroup
    \/ RemoveStorageGroup
    \/ AddMaskingView
    \/ RemoveMaskingView
    \/ returnMaskingView

SpecIntegrity == InitStore /\ [][NextIntegrity]_vars

\* C31: after any sequence of AddNewVolume, AddOneVolumeToStorageGroup and
\* removeOneVolumeFromStorageGroup, NumOfVolumes of every storage group
\* equals the length of StorageGroupIDToVolumes[sg] and is not negative, and
\* NumberOfStorageGroups of every volume equals the length of its
\* StorageGroupIDList; so removing a volume from a storage group it is not a
\* member of changes neither counter.
C31_MembershipCounters ==
    /\ \A sg \in stSGs :
           /\ stNumOfVolumes[sg] = Len(stSGVolumes[sg])
           /\ stNumOfVolumes[sg] >= 0
    /\ \A v \in stVols : stNumberOfSGs[v] = Len(stSGList[v])

\* The masking views of the store that name storage group sg.
ViewsOf(sg) == {mv \in stMVs : stMVSG[mv] = sg}

\* C32: after any sequence of AddStorageGroup, RemoveStorageGroup,
\* AddMaskingView and RemoveMaskingView, every masking view in
\* MaskingViewIDToMaskingView names a storage group that exists in
\* StorageGroupIDToStorageGroup, and NumOfMaskingViews of every storage group
\* equals the number of masking views that name it and is not negative (so
\* that RemoveStorageGroup, which refuses a group whose NumOfMaskingViews is
\* not 0, never removes a group a masking view names).
C32_ReferentialIntegrity ==
    /\ \A mv \in stMVs : stMVSG[mv] \in stSGs
    /\ \A sg \in stSGs :
           /\ stNumOfMVs[sg] = Cardinality(ViewsOf(sg))
           /\ stNumOfMVs[sg] >= 0

\* C33: RemoveMaskingView(id) on an existing masking view leaves id absent
\* from MaskingViewIDToMaskingView and leaves the set of storage groups in
\* StorageGroupIDToStorageGroup as it was, also when a storage group has the
\* masking view's ID; a later GET or RemoveMaskingView of id then answers
\* not found.
C33_RemoveMaskingViewExact ==
    [][(stOp'.op = "RemoveMaskingView" /\ stOp'.id \in stMVs)
          => (stOp'.id \notin stMVs' /\ stSGs' = stSGs)]_vars
====
